---------------------------- MODULE Spec2Model ----------------------------
(***************************************************************************)
(* A model of the data-normalization and metric pipeline of                *)
(* mini-cfo-copilot (src/agent/tools.py).                                  *)
(*                                                                         *)
(* The program keeps no state between queries: every public tool reloads   *)
(* the four record sets (actuals, budget, fx, cash) and computes its       *)
(* result from them.  The state of the model is therefore the four loaded  *)
(* tables, a label series handed to the category predicates, and the last  *)
(* call with its result.  Pandas tables are sequences of rows over an      *)
(* ordered list of column names; floats are exact rationals extended with  *)
(* NaN and the infinities.                                                 *)
(***************************************************************************)
EXTENDS Integers, Sequences, FiniteSets, TLC

VARIABLES
    actuals,    \* the loaded actuals table       (tools.py load_data)
    budget,     \* the loaded budget table
    fx,         \* the loaded FX rate table
    cash,       \* the loaded cash table
    labels,     \* a label Series handed to the _is_*_labels predicates
    loads,      \* the calls of load_data so far: what each read and returned
    call,       \* the last operation invoked, with its arguments
    ret         \* what that operation returned (or the error it raised)

vars == <<actuals, budget, fx, cash, labels, loads, call, ret>>

---------------------------------------------------------------------------
(* Cell values.  A cell is a float, a string, a timestamp or null (NaN,    *)
(* None and NaT are one value here, as pandas' isna() treats them).        *)

NaN == [k |-> "nan"]
PosInf == [k |-> "inf"]
NegInf == [k |-> "-inf"]
Str(s) == [k |-> "str", s |-> s]
Ts(y, m, d) == [k |-> "ts", y |-> y, m |-> m, d |-> d]

IsNull(x) == x.k = "nan"
IsStr(x) == x.k = "str"
IsTs(x) == x.k = "ts"
IsNum(x) == x.k = "num"
IsFloat(x) == x.k \in {"num", "inf", "-inf", "nan"}

Abs(n) == IF n < 0 THEN -n ELSE n

RECURSIVE Gcd(_, _)
Gcd(a, b) == IF b = 0 THEN a ELSE Gcd(b, a % b)

\* The float n/d (d # 0), in lowest terms with a positive denominator, so
\* that equal floats are equal values.
Rat(n, d) ==
    LET g == Gcd(Abs(n), Abs(d))
        s == IF d < 0 THEN -1 ELSE 1
    IN  [k |-> "num", n |-> (s * n) \div g, d |-> Abs(d) \div g]

Num(n) == Rat(n, 1)
Zero == Num(0)

Sign(x) ==
    CASE x.k = "inf" -> 1
      [] x.k = "-inf" -> -1
      [] x.k = "num" -> (IF x.n > 0 THEN 1 ELSE IF x.n < 0 THEN -1 ELSE 0)

Signed(s) == IF s > 0 THEN PosInf ELSE NegInf

\* IEEE arithmetic on the extended rationals.
FNeg(x) ==
    CASE x.k = "nan" -> NaN
      [] x.k = "inf" -> NegInf
      [] x.k = "-inf" -> PosInf
      [] x.k = "num" -> Rat(-x.n, x.d)

FAdd(x, y) ==
    IF x.k = "nan" \/ y.k = "nan" THEN NaN
    ELSE IF x.k = "num" /\ y.k = "num" THEN Rat(x.n * y.d + y.n * x.d, x.d * y.d)
    ELSE IF x.k = "num" THEN y
    ELSE IF y.k = "num" THEN x
    ELSE IF x.k = y.k THEN x ELSE NaN

FSub(x, y) == FAdd(x, FNeg(y))

FMul(x, y) ==
    IF x.k = "nan" \/ y.k = "nan" THEN NaN
    ELSE IF x.k = "num" /\ y.k = "num" THEN Rat(x.n * y.n, x.d * y.d)
    ELSE IF Sign(x) = 0 \/ Sign(y) = 0 THEN NaN
    ELSE Signed(Sign(x) * Sign(y))

\* numpy / pandas division: x/0 is +-inf, 0/0 is NaN, no exception.
FDiv(x, y) ==
    IF x.k = "nan" \/ y.k = "nan" THEN NaN
    ELSE IF x.k = "num" /\ y.k = "num"
         THEN IF y.n = 0
              THEN (IF x.n = 0 THEN NaN ELSE Signed(Sign(x)))
              ELSE Rat(x.n * y.d, x.d * y.n)
    ELSE IF x.k = "num" THEN Zero
    ELSE IF y.k = "num"
         THEN (IF Sign(y) = 0 THEN x ELSE Signed(Sign(x) * Sign(y)))
    ELSE NaN

\* Comparisons; any comparison with NaN is false.
FLt(x, y) ==
    /\ x.k # "nan" /\ y.k # "nan"
    /\ IF x.k = "num" /\ y.k = "num" THEN x.n * y.d < y.n * x.d
       ELSE IF x.k = y.k THEN FALSE
       ELSE x.k = "-inf" \/ y.k = "inf"

FEq(x, y) == x.k # "nan" /\ y.k # "nan" /\ x = y
FLe(x, y) == FLt(x, y) \/ FEq(x, y)
FGt(x, y) == FLt(y, x)
FGe(x, y) == FLe(y, x)

\* np.isfinite
IsFinite(x) == x.k = "num"

---------------------------------------------------------------------------
(* Strings.                                                                *)

LowerChar(c) ==
    CASE c = "A" -> "a" [] c = "B" -> "b" [] c = "C" -> "c" [] c = "D" -> "d"
      [] c = "E" -> "e" [] c = "F" -> "f" [] c = "G" -> "g" [] c = "H" -> "h"
      [] c = "I" -> "i" [] c = "J" -> "j" [] c = "K" -> "k" [] c = "L" -> "l"
      [] c = "M" -> "m" [] c = "N" -> "n" [] c = "O" -> "o" [] c = "P" -> "p"
      [] c = "Q" -> "q" [] c = "R" -> "r" [] c = "S" -> "s" [] c = "T" -> "t"
      [] c = "U" -> "u" [] c = "V" -> "v" [] c = "W" -> "w" [] c = "X" -> "x"
      [] c = "Y" -> "y" [] c = "Z" -> "z" [] OTHER -> c

RECURSIVE Lower(_)
Lower(s) ==
    IF Len(s) = 0 THEN ""
    ELSE LowerChar(SubSeq(s, 1, 1)) \o Lower(SubSeq(s, 2, Len(s)))

\* The characters a..b of s that exist (a Python slice).
Slice(s, a, b) ==
    IF (IF a < 1 THEN 1 ELSE a) > (IF b > Len(s) THEN Len(s) ELSE b) THEN ""
    ELSE SubSeq(s, IF a < 1 THEN 1 ELSE a, IF b > Len(s) THEN Len(s) ELSE b)

StartsWith(s, p) == Len(p) <= Len(s) /\ SubSeq(s, 1, Len(p)) = p

\* The positions at which p occurs in s.
Occurrences(s, p) ==
    {i \in 1..(Len(s) - Len(p) + 1) : SubSeq(s, i, i + Len(p) - 1) = p}

Contains(s, p) == Occurrences(s, p) # {}

\* A regex word character: [A-Za-z0-9_].
IsWordChar(c) ==
    LowerChar(c) \in
        {"a", "b", "c", "d", "e", "f", "g", "h", "i", "j", "k", "l", "m",
         "n", "o", "p", "q", "r", "s", "t", "u", "v", "w", "x", "y", "z",
         "0", "1", "2", "3", "4", "5", "6", "7", "8", "9", "_"}

\* re.search(r"\bp\b", s) for a pattern p made of word characters.
ContainsWord(s, p) ==
    \E i \in Occurrences(s, p) :
        /\ i = 1 \/ ~IsWordChar(SubSeq(s, i - 1, i - 1))
        /\ i + Len(p) - 1 = Len(s) \/ ~IsWordChar(SubSeq(s, i + Len(p), i + Len(p)))

\* Series.astype(str) on a label: a string stays, a null becomes "nan".
AsLabelStr(x) == IF IsStr(x) THEN x.s ELSE "nan"

---------------------------------------------------------------------------
(* The category predicates, on one label and on a Series of labels.        *)

is_revenue(label) ==
    LET s == Lower(AsLabelStr(label))
    IN  s = "revenue" \/ ContainsWord(s, "sales")

is_cogs(label) ==
    LET s == Lower(AsLabelStr(label))
    IN  s = "cogs" \/ Contains(s, "cost of goods")

is_opex(label) ==
    LET s == Lower(AsLabelStr(label))
    IN  StartsWith(s, "opex") \/ Contains(s, "operating expense")

_is_revenue_labels(series) == [i \in DOMAIN series |-> is_revenue(series[i])]
_is_cogs_labels(series) == [i \in DOMAIN series |-> is_cogs(series[i])]
_is_opex_labels(series) == [i \in DOMAIN series |-> is_opex(series[i])]

---------------------------------------------------------------------------
(* Numbers and dates written as text.                                      *)

IsDigit(c) == c \in {"0", "1", "2", "3", "4", "5", "6", "7", "8", "9"}

DigitVal(c) ==
    CASE c = "0" -> 0 [] c = "1" -> 1 [] c = "2" -> 2 [] c = "3" -> 3
      [] c = "4" -> 4 [] c = "5" -> 5 [] c = "6" -> 6 [] c = "7" -> 7
      [] c = "8" -> 8 [] c = "9" -> 9

DigitChar(n) ==
    CASE n = 0 -> "0" [] n = 1 -> "1" [] n = 2 -> "2" [] n = 3 -> "3"
      [] n = 4 -> "4" [] n = 5 -> "5" [] n = 6 -> "6" [] n = 7 -> "7"
      [] n = 8 -> "8" [] n = 9 -> "9"

AllDigits(s) == Len(s) > 0 /\ \A i \in 1..Len(s) : IsDigit(SubSeq(s, i, i))

RECURSIVE DigitsVal(_)
DigitsVal(s) ==
    IF Len(s) = 0 THEN 0
    ELSE 10 * DigitsVal(SubSeq(s, 1, Len(s) - 1)) + DigitVal(SubSeq(s, Len(s), Len(s)))

RECURSIVE NatStr(_)
NatStr(n) == IF n < 10 THEN DigitChar(n) ELSE NatStr(n \div 10) \o DigitChar(n % 10)

IntStr(n) == IF n < 0 THEN "-" \o NatStr(-n) ELSE NatStr(n)

\* Two digits, zero padded (strftime's %m, %d).
Pad2(n) == IF n < 10 THEN "0" \o NatStr(n) ELSE NatStr(n)

\* str.strip() of blanks.
RECURSIVE Strip(_)
Strip(s) ==
    IF Len(s) > 0 /\ SubSeq(s, 1, 1) = " " THEN Strip(SubSeq(s, 2, Len(s)))
    ELSE IF Len(s) > 0 /\ SubSeq(s, Len(s), Len(s)) = " " THEN Strip(SubSeq(s, 1, Len(s) - 1))
    ELSE s

\* int(text): the value, or NaN where Python raises ValueError.
PyInt(s) ==
    LET t == Strip(s)
    IN  IF AllDigits(t) THEN Num(DigitsVal(t))
        ELSE IF Len(t) > 1 /\ SubSeq(t, 1, 1) = "-" /\ AllDigits(SubSeq(t, 2, Len(t)))
             THEN Num(-DigitsVal(SubSeq(t, 2, Len(t))))
        ELSE NaN

MonthNames ==
    <<"January", "February", "March", "April", "May", "June", "July",
      "August", "September", "October", "November", "December">>

\* The month a month name or its three-letter abbreviation denotes, or 0.
MonthOfName(w) ==
    LET hits == {m \in 1..12 :
                    \/ Lower(w) = Lower(MonthNames[m])
                    \/ Lower(w) = Lower(SubSeq(MonthNames[m], 1, 3))}
    IN  IF hits = {} THEN 0 ELSE CHOOSE m \in hits : TRUE

DaysIn(y, m) ==
    IF m \in {4, 6, 9, 11} THEN 30
    ELSE IF m = 2 THEN (IF y % 4 = 0 /\ (y % 100 # 0 \/ y % 400 = 0) THEN 29 ELSE 28)
    ELSE 31

\* A year and a month as a timestamp, or NaT when the month is none.
YearMonth(y, m, d) == IF m \in 1..12 /\ d >= 1 /\ d <= DaysIn(y, m) THEN Ts(y, m, d) ELSE NaN

IsDateSep(c) == c \in {"-", "/"}

\* "<Month> YYYY", split at its blank at position i.
MonthYearText(w, yy) ==
    IF Len(yy) = 4 /\ AllDigits(yy) THEN YearMonth(DigitsVal(yy), MonthOfName(w), 1) ELSE NaN

\* The date a text denotes to pandas.to_datetime / dateutil.parser.parse, or
\* NaN when it is no date.  Forms: YYYY, YYYY-MM, YYYY/MM, YYYY-MM-DD,
\* "<Month> YYYY".  A text without a day gets day 1.
ParseDateStr(s) ==
    IF Len(s) = 4
    THEN (IF AllDigits(s) THEN Ts(DigitsVal(s), 1, 1) ELSE NaN)
    ELSE IF Len(s) \in {7, 10} /\ AllDigits(Slice(s, 1, 4) \o Slice(s, 6, 7) \o Slice(s, 9, 10))
                               /\ IsDateSep(Slice(s, 5, 5))
                               /\ (Len(s) = 7 \/ IsDateSep(Slice(s, 8, 8)))
    THEN YearMonth(DigitsVal(Slice(s, 1, 4)), DigitsVal(Slice(s, 6, 7)),
                   IF Len(s) = 7 THEN 1 ELSE DigitsVal(Slice(s, 9, 10)))
    ELSE IF Cardinality(Occurrences(s, " ")) = 1
    THEN MonthYearText(Slice(s, 1, Len(s) - 5), Slice(s, Len(s) - 3, Len(s)))
    ELSE NaN

\* pd.to_datetime(x, errors="coerce") on one cell: a timestamp stays, a
\* number is nanoseconds since the epoch, a text is parsed, anything else
\* is NaT.
ToDatetime(x) ==
    CASE IsTs(x) -> x
      [] IsNum(x) -> Ts(1970, 1, 1)
      [] IsStr(x) -> ParseDateStr(x.s)
      [] OTHER -> NaN

\* ts.dt.to_period("M").dt.to_timestamp(): the first day of the month.
MonthStart(x) == IF IsTs(x) THEN Ts(x.y, x.m, 1) ELSE NaN

\* Timestamps in chronological order.
TsKey(x) == (x.y * 12 + (x.m - 1)) * 32 + x.d
TsLt(a, b) == TsKey(a) < TsKey(b)

\* Timestamp.strftime("%B %Y")
MonthLabel(x) == MonthNames[x.m] \o " " \o NatStr(x.y)

\* pd.to_numeric(x, errors="coerce") on one cell.
ToNumeric(x) ==
    CASE IsFloat(x) -> x
      [] IsStr(x) -> PyInt(x.s)
      [] OTHER -> NaN

\* Series.fillna(v) on one cell.
FillNa(x, v) == IF IsNull(x) THEN v ELSE x

---------------------------------------------------------------------------
(* Tables (pandas DataFrames): the ordered column names, the columns of a  *)
(* numeric dtype, and the rows, each a function from column name to cell.  *)

Table(cols, num, rows) == [cols |-> cols, num |-> num, rows |-> rows]

Range(seq) == {seq[i] : i \in DOMAIN seq}
ColSet(t) == Range(t.cols)
HasCol(t, c) == c \in ColSet(t)
NRows(t) == Len(t.rows)

\* df[c]
Column(t, c) == [i \in DOMAIN t.rows |-> t.rows[i][c]]

\* df[c] = series
Assign(t, c, series, numeric) ==
    [cols |-> IF HasCol(t, c) THEN t.cols ELSE Append(t.cols, c),
     num  |-> IF numeric THEN t.num \cup {c} ELSE t.num \ {c},
     rows |-> [i \in DOMAIN t.rows |->
                 [d \in ColSet(t) \cup {c} |->
                     IF d = c THEN series[i] ELSE t.rows[i][d]]]]

\* The elements of seq at the positions for which keep holds, in order.
RECURSIVE SelectAt(_, _, _)
SelectAt(seq, keep, n) ==
    IF n = 0 THEN <<>>
    ELSE IF keep[n] THEN Append(SelectAt(seq, keep, n - 1), seq[n])
    ELSE SelectAt(seq, keep, n - 1)

\* df[mask]
Filter(t, mask) == [t EXCEPT !.rows = SelectAt(t.rows, mask, Len(t.rows))]

\* The first position of x in seq (list.index).
IndexOf(seq, x) == CHOOSE i \in DOMAIN seq : seq[i] = x /\ \A j \in 1..(i - 1) : seq[j] # x

\* An exception, as a value returned in place of a result.
Raise(type, msg) == [error |-> type, msg |-> msg]
IsError(x) == "error" \in DOMAIN x

RECURSIVE JoinNames(_)
JoinNames(cols) ==
    IF Len(cols) = 0 THEN ""
    ELSE IF Len(cols) = 1 THEN cols[1]
    ELSE cols[1] \o ", " \o JoinNames(Tail(cols))

---------------------------------------------------------------------------
(* _ensure_period_columns: the period normalizer.                          *)

to_datetime(series) == [i \in DOMAIN series |-> ToDatetime(series[i])]
to_month_start(series) == [i \in DOMAIN series |-> MonthStart(series[i])]

NotNa(series) == {i \in DOMAIN series : ~IsNull(series[i])}

\* The threshold at one half: ts.notna().mean() >= 0.5.
ParseRatioHalf(ts) == Len(ts) > 0 /\ 2 * Cardinality(NotNa(ts)) >= Len(ts)

\* ts.notna().mean() >= 0.6; the mean of an empty series is NaN and the
\* comparison false.
ParseRatioOk(ts) == Len(ts) > 0 /\ 10 * Cardinality(NotNa(ts)) >= 6 * Len(ts)

\* What a strategy yields: the period column, None, or an exception.
None == [none |-> TRUE]
Parsed(series) == [series |-> series]

\* try_parse_series, on the column already through pd.to_datetime.
accept_parsed(ts) == IF ParseRatioOk(ts) THEN Parsed(to_month_start(ts)) ELSE None
try_parse_series(series) == accept_parsed(to_datetime(series))

DateNameKeys ==
    <<"date", "month_year", "mnth_yr", "monthyr", "yr_mo", "yyyymm",
      "period_start", "period_end", "time">>
TimeNameKeys == <<"time", "month", "date", "yyyymm", "yrmo">>

NameHasKey(name, keys) == \E i \in DOMAIN keys : Contains(name, keys[i])

\* Series.astype(int) on one cell: the integer, or NaN where pandas raises.
AsInt(x) ==
    CASE IsNum(x) -> Num(IF x.n >= 0 THEN x.n \div x.d ELSE -((-x.n) \div x.d))
      [] IsStr(x) -> PyInt(x.s)
      [] OTHER -> NaN

\* str(x) of one cell, in a column of the given dtype.
CellStr(x, intcol) ==
    CASE IsStr(x) -> x.s
      [] IsNum(x) /\ x.d = 1 -> (IF intcol THEN IntStr(x.n) ELSE IntStr(x.n) \o ".0")
      [] IsTs(x) -> NatStr(x.y) \o "-" \o Pad2(x.m) \o "-" \o Pad2(x.d)
      [] OTHER -> "nan"

\* A numeric column read as int64: every cell a whole number, none null.
IsIntCol(t, c) ==
    c \in t.num /\ \A i \in DOMAIN t.rows : IsNum(t.rows[i][c]) /\ t.rows[i][c].d = 1

\* The first of two values that is a value (Python's try / except).
OrIfNull(a, b) == IF IsNull(a) THEN b ELSE a

\* dateutil's parse(text).month: a month name, or the month of a date; NaN
\* where it raises.
MonthOfText(txt) ==
    OrIfNull(IF MonthOfName(txt) = 0 THEN NaN ELSE Num(MonthOfName(txt)),
             [k |-> CASE IsTs(ParseDateStr(txt)) -> "num" [] OTHER -> "nan",
              n |-> ParseDateStr(txt).m, d |-> 1])

\* to_month_number without its except branch: int(str(x).strip()) alone.
to_month_number_digits(x, intcol) == PyInt(CellStr(x, intcol))

\* to_month_number: int(str(x).strip()), else dateutil's month of the text;
\* NaN where both raise.
to_month_number(x, intcol) ==
    OrIfNull(PyInt(CellStr(x, intcol)), MonthOfText(Strip(CellStr(x, intcol))))

\* s.str.replace(r"[^0-9-/_ ]", "", regex=True) on one text.
RECURSIVE KeepDateChars(_)
KeepDateChars(s) ==
    IF Len(s) = 0 THEN ""
    ELSE (IF IsDigit(SubSeq(s, 1, 1)) \/ SubSeq(s, 1, 1) \in {"-", "/", "_", " "}
          THEN SubSeq(s, 1, 1) ELSE "")
             \o KeepDateChars(SubSeq(s, 2, Len(s)))

\* np.where(s.str.len() == 6, s.str[:4] + "-" + s.str[4:6], s) on one text.
HyphenateYyyymm(s) == Str(IF Len(s) = 6 THEN Slice(s, 1, 4) \o "-" \o Slice(s, 5, 6) ELSE s)

\* The least element of a non-empty set of positions.
MinOf(S) == CHOOSE i \in S : \A j \in S : i <= j

\* The first of the strategies' results that is not None.
OrElse(a, b) == IF a = None THEN b ELSE a

LowerAll(names) == [i \in DOMAIN names |-> Lower(names[i])]

\* The column of df whose lower-cased name is lc: df[df.columns[cols.index(lc)]].
ColumnNamed(df, cols, lc) == Column(df, df.cols[IndexOf(cols, lc)])

\* Fast path: an existing period column of which any cell parses.
period_column(df, cols) ==
    IF "period" \in Range(cols) /\ NotNa(to_datetime(ColumnNamed(df, cols, "period"))) # {}
    THEN Parsed(to_month_start(to_datetime(ColumnNamed(df, cols, "period"))))
    ELSE None

\* The first position among the candidates whose column the parse accepts.
FirstAccepted(candidates, parse(_)) ==
    IF \E i \in candidates : parse(i) # None
    THEN parse(MinOf({i \in candidates : parse(i) # None}))
    ELSE None

\* 1) single date-ish columns by name
date_named_column(df, cols) ==
    FirstAccepted({i \in DOMAIN cols : NameHasKey(cols[i], DateNameKeys)},
                  LAMBDA i : try_parse_series(ColumnNamed(df, cols, cols[i])))

\* pd.to_datetime({"year": ..., "month": ..., "day": 1}), or the exception of
\* a year or month that is none.
assemble_dates(years, months) ==
    IF \A i \in DOMAIN years :
            /\ ~IsNull(years[i]) /\ ~IsNull(months[i])
            /\ months[i].n \in 1..12 /\ years[i].n \in 1678..2261
    THEN Parsed([i \in DOMAIN years |-> Ts(years[i].n, months[i].n, 1)])
    ELSE Raise("ValueError", "cannot assemble the datetimes")

FirstPresent(names, cols) == SelectSeq(names, LAMBDA n : n \in Range(cols))[1]

\* 2) separate year and month columns
year_month_columns(df, cols) ==
    IF /\ \E n \in {"year", "yr"} : n \in Range(cols)
       /\ \E n \in {"month", "mo", "mnth", "mth"} : n \in Range(cols)
    THEN assemble_dates(
            [i \in DOMAIN df.rows |->
                AsInt(ColumnNamed(df, cols, FirstPresent(<<"year", "yr">>, cols))[i])],
            [i \in DOMAIN df.rows |->
                to_month_number(
                    ColumnNamed(df, cols, FirstPresent(<<"month", "mo", "mnth", "mth">>, cols))[i],
                    IsIntCol(df, df.cols[IndexOf(cols, FirstPresent(<<"month", "mo", "mnth", "mth">>, cols))]))])
    ELSE None

\* 3) a single yyyymm-like column
yyyymm_column(df, cols) ==
    FirstAccepted({i \in DOMAIN df.cols : NameHasKey(cols[i], TimeNameKeys)},
                  LAMBDA i : try_parse_series(
                      [r \in DOMAIN df.rows |->
                          HyphenateYyyymm(KeepDateChars(
                              CellStr(df.rows[r][df.cols[i]], IsIntCol(df, df.cols[i]))))]))

\* The first column among the accepted ones with the highest score.
BestOf(accepted, score(_)) ==
    IF accepted = {} THEN None
    ELSE [best |-> MinOf({i \in accepted : \A j \in accepted : score(j) <= score(i)})]

\* 4) brute force over every column
TakeBest(df, b) ==
    IF b = None THEN None ELSE Parsed(to_month_start(to_datetime(Column(df, df.cols[b.best]))))

brute_force_column(df) ==
    TakeBest(df,
        BestOf({i \in DOMAIN df.cols : ParseRatioOk(to_datetime(Column(df, df.cols[i])))},
               LAMBDA i : Cardinality(NotNa(to_datetime(Column(df, df.cols[i]))))))

\* df["period"] = the column a strategy found; the exception it raised; or
\* the final ValueError naming the columns.
with_period(df, found) ==
    IF found = None
    THEN Raise("ValueError",
               "Expected a recognizable time column (date/year+month/period). Found columns: "
                   \o JoinNames(df.cols))
    ELSE IF IsError(found) THEN found
    ELSE Assign(df, "period", found.series, FALSE)

period_strategies(df, cols) ==
    OrElse(period_column(df, cols),
    OrElse(date_named_column(df, cols),
    OrElse(year_month_columns(df, cols),
    OrElse(yyyymm_column(df, cols),
           brute_force_column(df)))))

_ensure_period_columns(df) == with_period(df, period_strategies(df, LowerAll(df.cols)))

---------------------------------------------------------------------------
(* _standardize_schema: the schema normalizer.                             *)

RECURSIVE SpacesToUnderscores(_)
SpacesToUnderscores(s) ==
    IF Len(s) = 0 THEN ""
    ELSE (IF SubSeq(s, 1, 1) = " " THEN "_" ELSE SubSeq(s, 1, 1))
             \o SpacesToUnderscores(SubSeq(s, 2, Len(s)))

\* str(c).strip().lower().replace(" ", "_")
SnakeName(c) == SpacesToUnderscores(Lower(Strip(c)))

AccountAliases ==
    <<"account", "account_name", "gl_account", "line_item", "line", "category",
      "acct", "name", "acct_name", "account_title", "account_category">>
AmountAliases == <<"amount", "value", "usd", "total", "amount_usd", "net", "balance", "amt">>
CurrencyAliases == <<"currency", "ccy", "curr", "fx">>
EntityAliases == <<"entity", "company", "business_unit", "bu", "org", "division">>

\* pick with the candidates read from the end: the last that is a column.
pick_last(candidates, t) ==
    LET hits == {i \in DOMAIN candidates : HasCol(t, candidates[i])}
    IN  IF hits = {} THEN "" ELSE candidates[CHOOSE i \in hits : \A j \in hits : j <= i]

\* pick: the first candidate that is a column, or "" (None).
pick(candidates, t) ==
    LET hits == {i \in DOMAIN candidates : HasCol(t, candidates[i])}
    IN  IF hits = {} THEN "" ELSE candidates[MinOf(hits)]

\* df.columns = [...]: every column renamed.
RenameColumns(t) ==
    [cols |-> [i \in DOMAIN t.cols |-> SnakeName(t.cols[i])],
     num  |-> {SnakeName(c) : c \in t.num},
     rows |-> [i \in DOMAIN t.rows |->
                 [d \in {SnakeName(c) : c \in ColSet(t)} |->
                     t.rows[i][CHOOSE c \in ColSet(t) : SnakeName(c) = d]]]]

\* The canonical column target as a copy of the source column, unless there
\* is no source or the target exists.
copy_column(t, target, source) ==
    IF source # "" /\ ~HasCol(t, target)
    THEN Assign(t, target, Column(t, source), source \in t.num)
    ELSE t

FirstOrNone(names) == IF Len(names) > 0 THEN names[1] ELSE ""

\* The amount column: the first alias present, else the first numeric
\* column that is no rate.
amount_source(df) ==
    IF pick(AmountAliases, df) # "" THEN pick(AmountAliases, df)
    ELSE FirstOrNone(SelectSeq(df.cols, LAMBDA c : c \in df.num /\ c \notin {"rate", "rate_to_usd"}))

numeric_column(t, target, source) ==
    IF source # "" /\ ~HasCol(t, target)
    THEN Assign(t, target, [i \in DOMAIN t.rows |-> ToNumeric(t.rows[i][source])], TRUE)
    ELSE t

canonical_columns(df, account_col, amount_col, currency_col, entity_col) ==
    copy_column(
        copy_column(
            numeric_column(copy_column(df, "account", account_col), "amount", amount_col),
            "currency", currency_col),
        "entity", entity_col)

with_aliases(df) ==
    canonical_columns(df, pick(AccountAliases, df), amount_source(df),
                      pick(CurrencyAliases, df), pick(EntityAliases, df))

_standardize_schema(raw) == with_aliases(RenameColumns(raw))

---------------------------------------------------------------------------
(* _fx_to_usd: the currency converter.                                     *)

\* One row of df with the rate of one matching entry.
WithRate(r, rate) ==
    [d \in DOMAIN r \cup {"rate_to_usd"} |-> IF d = "rate_to_usd" THEN rate ELSE r[d]]

SameKey(r, e) == e["period"] = r["period"] /\ e["currency"] = r["currency"]

\* The rows the left join gives for one row of df: one per rate entry with
\* the same key, in the rate table's order, or one with a null rate.
JoinedWith(r, matches, rate_col) ==
    IF Len(matches) = 0 THEN <<WithRate(r, NaN)>>
    ELSE [j \in DOMAIN matches |-> WithRate(r, matches[j][rate_col])]

\* The rows of a left join of df with the (period, currency, rate) columns
\* of the rate table, in df's order.  Null keys match each other, as
\* pandas joins.
RECURSIVE LeftJoinRows(_, _, _, _)
LeftJoinRows(rows, rates, rate_col, n) ==
    IF n = 0 THEN <<>>
    ELSE LeftJoinRows(rows, rates, rate_col, n - 1)
            \o JoinedWith(rows[n], SelectSeq(rates, LAMBDA e : SameKey(rows[n], e)), rate_col)

\* A faulty variant of DefaultRate: rows without a rate are zeroed.
DefaultRateZero == Zero

\* The rate every row without a usable rate is given (1.0).
DefaultRate == Num(1)

\* A faulty variant of DefaultAmount: the null amount is not filled.
DefaultAmountUnfilled == NaN

\* What a null or unparseable amount counts as (0).
DefaultAmount == Zero

\* A faulty variant of AmountUsd: the rate applied in the wrong direction.
AmountUsdDivided(amount, rate) == FDiv(FillNa(ToNumeric(amount), DefaultAmount), rate)

\* Line 208: the USD amount of one merged row.
AmountUsd(amount, rate) == FMul(FillNa(ToNumeric(amount), DefaultAmount), rate)

\* Line 196: the rate of one merged row.
FilledRate(rate) == FillNa(rate, DefaultRate)

\* Lines 181-182: a record set without a currency column is all USD.
with_currency(df) ==
    IF ~HasCol(df, "currency")
    THEN Assign(df, "currency", [i \in DOMAIN df.rows |-> Str("USD")], FALSE)
    ELSE df

\* The rate column were rate preferred to rate_to_usd.
rate_column_rate_first(fxt) ==
    IF HasCol(fxt, "rate") THEN "rate"
    ELSE IF HasCol(fxt, "rate_to_usd") THEN "rate_to_usd" ELSE ""

\* Line 185: the rate column of the FX table, or "" (None).
rate_column(fxt) ==
    IF HasCol(fxt, "rate_to_usd") THEN "rate_to_usd"
    ELSE IF HasCol(fxt, "rate") THEN "rate" ELSE ""

\* Lines 199-206: the amount column of the merged table, or "" (none).
amount_column(merged) ==
    IF HasCol(merged, "amount") THEN "amount"
    ELSE FirstOrNone(SelectSeq(merged.cols, LAMBDA c : c \in merged.num /\ c # "rate_to_usd"))

\* Lines 198-209, on the merged table with its rates filled.
convert_amounts(merged, amount_col) ==
    IF amount_col = ""
    THEN Raise("ValueError", "No amount-like numeric column found for FX conversion.")
    ELSE IF \E i \in DOMAIN merged.rows : ~IsFloat(merged.rows[i]["rate_to_usd"])
    THEN Raise("TypeError", "can't multiply a number by a non-numeric rate")
    ELSE Assign(merged, "amount_usd",
                [i \in DOMAIN merged.rows |->
                    AmountUsd(merged.rows[i][amount_col], merged.rows[i]["rate_to_usd"])],
                TRUE)

\* Line 196, on the joined rows.
fill_rates(df, joined, numeric) ==
    Table(Append(df.cols, "rate_to_usd"),
          df.num \cup (IF numeric THEN {"rate_to_usd"} ELSE {}),
          [i \in DOMAIN joined |->
              [joined[i] EXCEPT !["rate_to_usd"] = FilledRate(joined[i]["rate_to_usd"])]])

with_amounts(merged) == convert_amounts(merged, amount_column(merged))

\* Lines 192-195, on the two tables with their periods normalized.
merge_rates(df, fxp, rate_col) ==
    IF IsError(df) THEN df
    ELSE IF IsError(fxp) THEN fxp
    ELSE IF ~HasCol(fxp, "currency") THEN Raise("KeyError", "currency")
    ELSE IF HasCol(df, "rate_to_usd") THEN Raise("KeyError", "rate_to_usd")
    ELSE IF ("currency" \in df.num) # ("currency" \in fxp.num)
    THEN Raise("ValueError", "You are trying to merge on float64 and object columns")
    ELSE with_amounts(
            fill_rates(df, LeftJoinRows(df.rows, fxp.rows, rate_col, Len(df.rows)),
                       rate_col \in fxp.num))

_fx_to_usd(df, fxt) ==
    IF rate_column(fxt) = ""
    THEN Raise("ValueError", "FX CSV must include 'rate_to_usd' or 'rate' column")
    ELSE merge_rates(_ensure_period_columns(with_currency(df)),
                     _ensure_period_columns(fxt), rate_column(fxt))

\* The text of the label cells of one column: Series.astype(str).
label_texts(df, c) ==
    [i \in DOMAIN df.rows |-> Str(CellStr(df.rows[i][c], IsIntCol(df, c)))]

\* _label_series: the best label column as a Series of strings.
_label_series(df) ==
    IF HasCol(df, "account") THEN label_texts(df, "account")
    ELSE IF HasCol(df, "entity") THEN label_texts(df, "entity")
    ELSE [i \in DOMAIN df.rows |-> NaN]

\* load_data: standardize, then normalize the period, of each table read.
\* The first failure is what load_data raises.
load_one(raw) == _ensure_period_columns(_standardize_schema(raw))

---------------------------------------------------------------------------
(* Reading a table: pandas.read_csv infers a numeric dtype for a column    *)
(* all of whose cells are numbers or empty.                                *)

SeqsUpTo(S, n) == UNION {[1..k -> S] : k \in 0..n}

read_csv(cols, rows) ==
    Table(cols,
          {c \in Range(cols) : Len(rows) > 0 /\ \A i \in DOMAIN rows : IsFloat(rows[i][c])},
          rows)

EmptyTable == Table(<<>>, {}, <<>>)
NoCall == [op |-> "none"]
NoResult == [none |-> TRUE]

---------------------------------------------------------------------------
(* The conversion specification: a record set and a rate table, and one    *)
(* call of _fx_to_usd on them.                                             *)

MaxDfRows == 2
MaxFxRows == 2

June == Ts(2025, 6, 1)
July == Ts(2025, 7, 1)

DfRows ==
    {[period |-> p, account |-> Str("Revenue"), amount |-> a, currency |-> c] :
        p \in {June}, a \in {Num(1000), NaN, Str("abc")}, c \in {Str("USD"), Str("EUR")}}

RateRows ==
    {[period |-> p, currency |-> Str("EUR"), rate_to_usd |-> r] :
        p \in {June, July}, r \in {Rat(11, 10), Rat(1085, 1000), NaN}}

DfTables ==
    {read_csv(<<"period", "account", "amount", "currency">>, rows) :
        rows \in SeqsUpTo(DfRows, MaxDfRows)}

RateTables ==
    {read_csv(<<"period", "currency", "rate_to_usd">>, rows) :
        rows \in SeqsUpTo(RateRows, MaxFxRows)}

InitFx ==
    /\ actuals \in DfTables
    /\ fx \in RateTables
    /\ budget = EmptyTable
    /\ cash = EmptyTable
    /\ labels = <<>>
    /\ loads = <<>>
    /\ call = NoCall
    /\ ret = NoResult

\* _fx_to_usd(df, fx) on the record set held in actuals.
Convert ==
    /\ call = NoCall
    /\ call' = [op |-> "_fx_to_usd"]
    /\ ret' = _fx_to_usd(actuals, fx)
    /\ UNCHANGED <<actuals, budget, fx, cash, labels, loads>>

NextFx == Convert

SpecFx == InitFx /\ [][NextFx]_vars

Converted == call.op = "_fx_to_usd" /\ ~IsError(ret)

\* The rate entries of the FX table for the key of a converted row.
EntriesFor(r) ==
    {j \in DOMAIN fx.rows :
        fx.rows[j]["period"] = r["period"] /\ fx.rows[j]["currency"] = r["currency"]}

\* C1: every converted row whose (period, currency) has no entry in the FX
\* table has rate_to_usd = 1.0.
C1_MissingRateIsOne ==
    Converted =>
        \A i \in DOMAIN ret.rows :
            EntriesFor(ret.rows[i]) = {} => ret.rows[i]["rate_to_usd"] = Num(1)

\* C1 witness: a conversion against a non-empty FX table returned a row
\* whose key has no entry.
C1_Witness ==
    /\ Converted
    /\ Len(fx.rows) > 0
    /\ \E i \in DOMAIN ret.rows :
            EntriesFor(ret.rows[i]) = {} /\ ret.rows[i]["currency"] = Str("EUR")

FAbs(x) == IF FLt(x, Zero) THEN FNeg(x) ELSE x

\* abs(a - b) < 0.01, as the tests compare floats.
WithinTolerance(a, b) == FLt(FAbs(FSub(a, b)), Rat(1, 100))

\* row['amount'] * row['rate_to_usd'] as the tests compute it: NaN for a
\* null amount, no number at all for a text.
LocalProduct(r) ==
    IF IsFloat(r["amount"]) THEN FMul(r["amount"], r["rate_to_usd"]) ELSE NaN

\* C2 as stated: in every converted row, amount_usd is the row's local
\* amount times its rate_to_usd, within 0.01.
C2_AsStated ==
    Converted =>
        \A i \in DOMAIN ret.rows :
            WithinTolerance(ret.rows[i]["amount_usd"], LocalProduct(ret.rows[i]))

\* C2 amended: in every converted row whose local amount is a number (not
\* null, not unparseable text), amount_usd is the local amount times the
\* row's rate_to_usd, within 0.01.
C2_ProductOfNumericAmount ==
    Converted =>
        \A i \in DOMAIN ret.rows :
            IsNum(ret.rows[i]["amount"]) =>
                WithinTolerance(ret.rows[i]["amount_usd"], LocalProduct(ret.rows[i]))

\* C2 witness: a converted row with a numeric amount and a rate other than 1.
C2_Witness ==
    /\ Converted
    /\ \E i \in DOMAIN ret.rows :
            /\ ret.rows[i]["amount"] = Num(1000)
            /\ ret.rows[i]["rate_to_usd"] = Rat(1085, 1000)
            /\ ret.rows[i]["amount_usd"] = Num(1085)

\* C3: amount_usd is never null; a null or unparseable amount gives 0, and
\* a row with no matching rate, or only null rates, gives amount * 1.0.
C3_AmountUsdDefined ==
    Converted =>
        \A i \in DOMAIN ret.rows :
            LET r == ret.rows[i]
                amount == ToNumeric(r["amount"])
            IN  /\ ~IsNull(r["amount_usd"])
                /\ IsNull(amount) => r["amount_usd"] = Zero
                /\ (\A j \in EntriesFor(r) : IsNull(fx.rows[j]["rate_to_usd"]))
                       => r["amount_usd"] = (IF IsNull(amount) THEN Zero ELSE amount)

\* C3 witness: one conversion returned a null amount, an unparseable amount
\* or a null rate for a numeric amount.
C3_Witness ==
    /\ Converted
    /\ \E i \in DOMAIN ret.rows : IsNull(ret.rows[i]["amount"])
    /\ \E i \in DOMAIN ret.rows :
            /\ ret.rows[i]["amount"] = Num(1000)
            /\ EntriesFor(ret.rows[i]) # {}
            /\ \A j \in EntriesFor(ret.rows[i]) : IsNull(fx.rows[j]["rate_to_usd"])

---------------------------------------------------------------------------
(* The classification specification: a Series of labels, and the three     *)
(* category predicates applied to it.                                      *)

MaxLabels == 1

LabelWords ==
    {"Revenue", "Sales", "COGS", "Cost of Goods Sold", "Opex", "Operating Expenses",
     "Marketing", "Salesforce"}

LabelTexts ==
    LabelWords
        \cup {a \o sep \o b : a \in LabelWords, b \in LabelWords, sep \in {" ", ":"}}
        \cup {"Sales Opex Adjustment", "opex sales"}

LabelCells == {Str(t) : t \in LabelTexts} \cup {NaN}

Categories == {"revenue", "cogs", "opex"}

InitLabels ==
    /\ labels \in UNION {[1..k -> LabelCells] : k \in 1..MaxLabels}
    /\ loads = <<>>
    /\ actuals = EmptyTable
    /\ budget = EmptyTable
    /\ fx = EmptyTable
    /\ cash = EmptyTable
    /\ call = NoCall
    /\ ret = [c \in {} |-> <<>>]

\* One predicate applied to the Series; ret collects the masks computed.
Classified(c, mask) ==
    /\ c \notin DOMAIN ret
    /\ call' = [op |-> c]
    /\ ret' = [d \in DOMAIN ret \cup {c} |-> IF d = c THEN mask ELSE ret[d]]
    /\ UNCHANGED <<actuals, budget, fx, cash, labels, loads>>

IsRevenueLabels == Classified("revenue", _is_revenue_labels(labels))
IsCogsLabels == Classified("cogs", _is_cogs_labels(labels))
IsOpexLabels == Classified("opex", _is_opex_labels(labels))

NextLabels == IsRevenueLabels \/ IsCogsLabels \/ IsOpexLabels

SpecLabels == InitLabels /\ [][NextLabels]_vars

\* C4: for every label at most one of the three category predicates is
\* true.
C4_AtMostOneCategory ==
    DOMAIN ret = Categories =>
        \A i \in DOMAIN labels :
            Cardinality({c \in Categories : ret[c][i]}) <= 1

---------------------------------------------------------------------------
(* The metric engine: aggregation helpers.                                 *)

\* An exception of an earlier step is what the tool raises; otherwise the
\* next step runs on the value.
Then(x, step(_)) == IF IsError(x) THEN x ELSE step(x)

\* Series.sum(): nulls are skipped, the sum of nothing is 0.
RECURSIVE SumUpTo(_, _)
SumUpTo(series, n) ==
    IF n = 0 THEN Zero ELSE FAdd(SumUpTo(series, n - 1), FillNa(series[n], Zero))

Sum(series) == SumUpTo(series, Len(series))

\* Series.mean() of a non-empty Series of floats.
Mean(series) == FDiv(Sum(series), Num(Len(series)))

\* A set of timestamps in ascending order: sorted(...), sort_index().
RECURSIVE SortedTs(_)
SortedTs(S) ==
    IF S = {} THEN <<>>
    ELSE LET first == CHOOSE p \in S : \A q \in S : ~TsLt(q, p)
         IN  <<first>> \o SortedTs(S \ {first})

\* The distinct non-null periods of a table.
PeriodsOf(t) == {t.rows[i]["period"] : i \in NotNa(Column(t, "period"))}

\* df[df["period"].eq(period)]["amount_usd"].sum()
PeriodTotal(t, period) ==
    Sum(Column(Filter(t, [i \in DOMAIN t.rows |-> t.rows[i]["period"] = period /\ IsTs(period)]),
               "amount_usd"))

\* df.groupby("period")["amount_usd"].sum(): one total per non-null period.
GroupTotals(t) == [p \in PeriodsOf(t) |-> PeriodTotal(t, p)]

\* The value of a grouped Series at a key, null where the key is absent.
At(totals, p) == IF p \in DOMAIN totals THEN totals[p] ELSE NaN

\* The rows of one category, converted: _fx_to_usd(actuals[mask], fx).
converted_category(df, fxt, mask) == _fx_to_usd(Filter(df, mask), fxt)

revenue_rows(df, fxt) == converted_category(df, fxt, _is_revenue_labels(_label_series(df)))
cogs_rows(df, fxt) == converted_category(df, fxt, _is_cogs_labels(_label_series(df)))
opex_rows(df, fxt) == converted_category(df, fxt, _is_opex_labels(_label_series(df)))

\* DataFrame.tail(n): the last n rows; all but the first -n for n < 0.
TailSeq(seq, n) ==
    IF n >= Len(seq) THEN seq
    ELSE IF n >= 0 THEN SubSeq(seq, Len(seq) - n + 1, Len(seq))
    ELSE SubSeq(seq, 1 - n, Len(seq))

---------------------------------------------------------------------------
(* load_data, on the four tables each standardized and period-normalized   *)
(* (load_one): the tables, or the first failure in the order of lines      *)
(* 166-169.                                                                *)

Loaded(a, b, c, f) == [actuals |-> a, budget |-> b, fx |-> f, cash |-> c]

load_data(loaded_actuals, loaded_budget, loaded_fx, loaded_cash) ==
    Then(loaded_actuals, LAMBDA a :
    Then(loaded_budget, LAMBDA b :
    Then(loaded_cash, LAMBDA c :
    Then(loaded_fx, LAMBDA f : Loaded(a, b, c, f)))))

---------------------------------------------------------------------------
(* ebitda_proxy                                                            *)

\* sorted(actuals["period"].unique()), as the final sort_values("period")
\* leaves it: the periods ascending, a null period last.
period_index(df) ==
    SortedTs(PeriodsOf(df))
        \o (IF \E i \in DOMAIN df.rows : IsNull(df.rows[i]["period"]) THEN <<NaN>> ELSE <<>>)

\* Line 314: revenue - cogs - opex.
EbitdaOf(revenue, cogs, opex) == FSub(FSub(revenue, cogs), opex)

\* Lines 310-314 for one period: the category totals aligned on the index,
\* fillna(0.0), and their difference.
ebitda_row(p, revenue, cogs, opex) ==
    [period |-> p, revenue_usd |-> revenue, cogs_usd |-> cogs, opex_usd |-> opex,
     ebitda_proxy_usd |-> EbitdaOf(revenue, cogs, opex)]

ebitda_table(index, rev, cogs, opex) ==
    Table(<<"period", "revenue_usd", "cogs_usd", "opex_usd", "ebitda_proxy_usd">>,
          {"revenue_usd", "cogs_usd", "opex_usd", "ebitda_proxy_usd"},
          [i \in DOMAIN index |->
              ebitda_row(index[i], FillNa(At(rev, index[i]), Zero),
                         FillNa(At(cogs, index[i]), Zero),
                         FillNa(At(opex, index[i]), Zero))])

ebitda_proxy(d) ==
    Then(revenue_rows(d.actuals, d.fx), LAMBDA rev :
    Then(cogs_rows(d.actuals, d.fx), LAMBDA cogs :
    Then(opex_rows(d.actuals, d.fx), LAMBDA opex :
        ebitda_table(period_index(d.actuals),
                     GroupTotals(rev), GroupTotals(cogs), GroupTotals(opex)))))

---------------------------------------------------------------------------
(* gross_margin_trend                                                      *)

\* Lines 280-281: null where revenue is 0, else the margin in percent.
GmPct(revenue, cogs) ==
    IF FEq(revenue, Zero) THEN NaN
    ELSE FMul(FDiv(FSub(revenue, cogs), revenue), Num(100))

margin_row(p, revenue, cogs) ==
    [period |-> p, revenue_usd |-> revenue, cogs_usd |-> cogs,
     gm_pct |-> GmPct(revenue, cogs)]

\* Lines 278-279: the outer join of the two grouped totals, fillna(0.0).
margin_rows(index, rev, cogs) ==
    [i \in DOMAIN index |->
        margin_row(index[i], FillNa(At(rev, index[i]), Zero),
                   FillNa(At(cogs, index[i]), Zero))]

\* Lines 278-282 on the two grouped totals.
margin_table(rev, cogs, last_n_months) ==
    Table(<<"period", "revenue_usd", "cogs_usd", "gm_pct">>,
          {"revenue_usd", "cogs_usd", "gm_pct"},
          TailSeq(margin_rows(SortedTs(DOMAIN rev \cup DOMAIN cogs), rev, cogs),
                  last_n_months))

gross_margin_trend(d, last_n_months) ==
    Then(revenue_rows(d.actuals, d.fx), LAMBDA rev :
    Then(cogs_rows(d.actuals, d.fx), LAMBDA cogs :
        margin_table(GroupTotals(rev), GroupTotals(cogs), last_n_months)))

---------------------------------------------------------------------------
(* revenue_vs_budget                                                       *)

\* Series.max() of the period column: the latest non-null period, NaT when
\* there is none.
MaxPeriod(df) ==
    IF PeriodsOf(df) = {} THEN NaN
    ELSE CHOOSE p \in PeriodsOf(df) : \A q \in PeriodsOf(df) : ~TsLt(p, q)

\* Lines 250-253: the month asked for, or the latest month of actuals.
requested_period(month_text, df) ==
    IF month_text # ""
    THEN (IF IsNull(ParseDateStr(month_text))
          THEN Raise("ParserError", "Unknown string format: " \o month_text)
          ELSE MonthStart(ParseDateStr(month_text)))
    ELSE MaxPeriod(df)

\* Lines 263-266 on the converted revenue rows of the two tables.
revenue_result(period, a_rev, b_rev) ==
    IF IsNull(period) THEN Raise("ValueError", "NaTType does not support strftime")
    ELSE [actual |-> PeriodTotal(a_rev, period),
          budget |-> PeriodTotal(b_rev, period),
          label  |-> MonthLabel(period)]

revenue_vs_budget(d, month_text) ==
    Then(requested_period(month_text, d.actuals), LAMBDA period :
    Then(revenue_rows(d.actuals, d.fx), LAMBDA a_rev :
    Then(revenue_rows(d.budget, d.fx), LAMBDA b_rev :
        revenue_result(period, a_rev, b_rev))))

---------------------------------------------------------------------------
(* cash_runway_months                                                      *)

\* How many trailing periods the average burn is taken over (line 324).
BurnWindow == 3

\* Lines 323-325: the mean net burn of the last periods, NaN without any.
average_burn(e) ==
    IF Len(e.rows) = 0 THEN NaN
    ELSE Mean(TailSeq([i \in DOMAIN e.rows |-> FNeg(e.rows[i]["ebitda_proxy_usd"])],
                      BurnWindow))

\* The rows with one period, in their order.
RowsOfPeriod(rows, p) == SelectSeq(rows, LAMBDA r : r["period"] = p)

RECURSIVE ConcatPeriods(_, _, _)
ConcatPeriods(rows, index, n) ==
    IF n = 0 THEN <<>>
    ELSE ConcatPeriods(rows, index, n - 1) \o RowsOfPeriod(rows, index[n])

RowPeriods(rows) == {r["period"] : r \in {x \in Range(rows) : IsTs(x["period"])}}

\* sort_values("period"): ascending, null periods last; rows of one period
\* keep their order (the sort of a table this small is an insertion sort).
sort_by_period(rows) ==
    ConcatPeriods(rows, SortedTs(RowPeriods(rows)), Cardinality(RowPeriods(rows)))
        \o SelectSeq(rows, LAMBDA r : IsNull(r["period"]))

AmountsUsd(rows) == [i \in DOMAIN rows |-> rows[i]["amount_usd"]]

\* Lines 328-329: amount_usd of the last row of the sorted cash table.
latest_cash(cash_df) == Sum(AmountsUsd(TailSeq(sort_by_period(cash_df.rows), 1)))

\* Lines 331-334.
Runway(cash_usd, avg_burn) ==
    IF ~IsFinite(avg_burn) \/ FLe(avg_burn, Zero) THEN PosInf
    ELSE FDiv(cash_usd, avg_burn)

runway_result(cash_usd, avg_burn) ==
    [cash_usd |-> cash_usd, runway |-> Runway(cash_usd, avg_burn)]

cash_runway_months(d) ==
    Then(ebitda_proxy(d), LAMBDA e :
    Then(_fx_to_usd(d.cash, d.fx), LAMBDA cash_df :
        runway_result(latest_cash(cash_df), average_burn(e))))

---------------------------------------------------------------------------
(* quarterly_summary                                                       *)

\* Timestamp.to_period("Q"): the calendar quarter, null for a null period.
QuarterOf(x) == IF IsTs(x) THEN [k |-> "quarter", y |-> x.y, q |-> ((x.m - 1) \div 3) + 1] ELSE NaN

\* str(quarter), e.g. "2025Q2".
QuarterLabel(q) == NatStr(q.y) \o "Q" \o NatStr(q.q)

\* Line 727: actuals with its quarter column.
with_quarter(df) ==
    Assign(df, "quarter", [i \in DOMAIN df.rows |-> QuarterOf(df.rows[i]["period"])], FALSE)

RECURSIVE SortedQuarters(_)
SortedQuarters(S) ==
    IF S = {} THEN <<>>
    ELSE LET first == CHOOSE a \in S : \A b \in S : a.y * 4 + a.q <= b.y * 4 + b.q
         IN  <<first>> \o SortedQuarters(S \ {first})

\* Line 732: sorted(actuals['quarter'].unique()); a null quarter, which no
\* row equals, is put last.
quarter_index(df) ==
    SortedQuarters({df.rows[i]["quarter"] : i \in {j \in DOMAIN df.rows : ~IsNull(df.rows[j]["quarter"])}})
        \o (IF \E i \in DOMAIN df.rows : IsNull(df.rows[i]["quarter"]) THEN <<NaN>> ELSE <<>>)

\* quarter_actuals[mask]: the rows of the quarter that the mask selects.
quarter_category(df, fxt, quarter, mask) ==
    _fx_to_usd(Filter(df, [i \in DOMAIN df.rows |->
                              df.rows[i]["quarter"] = quarter /\ ~IsNull(quarter) /\ mask[i]]),
               fxt)

\* Lines 757 and 759: a margin in percent, 0 unless revenue is positive.
MarginPct(profit, revenue) ==
    IF FGt(revenue, Zero) THEN FMul(FDiv(profit, revenue), Num(100)) ELSE Zero

\* Lines 751-760.
quarter_row(quarter, revenue, cogs, opex) ==
    [quarter |-> Str(QuarterLabel(quarter)),
     revenue |-> revenue, cogs |-> cogs, opex |-> opex,
     gross_profit |-> FSub(revenue, cogs),
     gross_margin_pct |-> MarginPct(FSub(revenue, cogs), revenue),
     ebitda |-> EbitdaOf(revenue, cogs, opex),
     ebitda_margin_pct |-> MarginPct(EbitdaOf(revenue, cogs, opex), revenue)]

\* Lines 733-760 for one quarter.
quarter_summary(df, fxt, labels_, quarter) ==
    Then(quarter_category(df, fxt, quarter, _is_revenue_labels(labels_)), LAMBDA rev :
    Then(quarter_category(df, fxt, quarter, _is_cogs_labels(labels_)), LAMBDA cogs :
    Then(quarter_category(df, fxt, quarter, _is_opex_labels(labels_)), LAMBDA opex :
        quarter_row(quarter, Sum(Column(rev, "amount_usd")),
                    Sum(Column(cogs, "amount_usd")), Sum(Column(opex, "amount_usd"))))))

\* The loop of lines 732-760: quarterly_data after the first n quarters, or
\* the first exception.
RECURSIVE quarterly_data(_, _, _, _, _)
quarterly_data(df, fxt, labels_, index, n) ==
    IF n = 0 THEN [rows |-> <<>>]
    ELSE Then(quarterly_data(df, fxt, labels_, index, n - 1), LAMBDA before :
         Then(quarter_summary(df, fxt, labels_, index[n]), LAMBDA row :
             [rows |-> Append(before.rows, row)]))

\* Series.pct_change() * 100 of one column.
PctChange(rows, c) ==
    [i \in DOMAIN rows |->
        IF i = 1 THEN NaN
        ELSE FMul(FSub(FDiv(rows[i][c], rows[i - 1][c]), Num(1)), Num(100))]

QuarterColumns ==
    <<"quarter", "revenue", "cogs", "opex", "gross_profit", "gross_margin_pct",
      "ebitda", "ebitda_margin_pct">>

\* Lines 762-767: the table of the rows, with the growth columns when there
\* is more than one quarter.
quarterly_frame(rows) ==
    IF Len(rows) > 1
    THEN Assign(Assign(Table(QuarterColumns, Range(QuarterColumns) \ {"quarter"}, rows),
                       "revenue_qoq_growth", PctChange(rows, "revenue"), TRUE),
                "ebitda_qoq_growth", PctChange(rows, "ebitda"), TRUE)
    ELSE Table(IF Len(rows) = 0 THEN <<>> ELSE QuarterColumns,
               IF Len(rows) = 0 THEN {} ELSE Range(QuarterColumns) \ {"quarter"}, rows)

quarterly_table(df, fxt) ==
    Then(quarterly_data(df, fxt, _label_series(df), quarter_index(df), Len(quarter_index(df))),
         LAMBDA data : quarterly_frame(data.rows))

quarterly_summary(d) == quarterly_table(with_quarter(d.actuals), d.fx)

---------------------------------------------------------------------------
(* Grouping by a label column: groupby(account_col) sorts its keys, which  *)
(* are strings, by their characters.                                       *)

\* The printable ASCII characters in the order of their codes (without the
\* quotes, the backslash and the backtick, which no label here contains).
AsciiOrder ==
    " !#$%&()*+,-./0123456789:;<=>?@ABCDEFGHIJKLMNOPQRSTUVWXYZ[]^_abcdefghijklmnopqrstuvwxyz{|}~"

CodeOf(c) ==
    IF \E i \in 1..Len(AsciiOrder) : SubSeq(AsciiOrder, i, i) = c
    THEN CHOOSE i \in 1..Len(AsciiOrder) : SubSeq(AsciiOrder, i, i) = c
    ELSE Len(AsciiOrder) + 1

\* a < b for two strings, as Python compares them.
RECURSIVE StrLess(_, _)
StrLess(a, b) ==
    IF Len(b) = 0 THEN FALSE
    ELSE IF Len(a) = 0 THEN TRUE
    ELSE IF SubSeq(a, 1, 1) = SubSeq(b, 1, 1)
    THEN StrLess(SubSeq(a, 2, Len(a)), SubSeq(b, 2, Len(b)))
    ELSE CodeOf(SubSeq(a, 1, 1)) < CodeOf(SubSeq(b, 1, 1))

RECURSIVE SortedStrs(_)
SortedStrs(S) ==
    IF S = {} THEN <<>>
    ELSE LET first == CHOOSE a \in S : \A b \in S : ~StrLess(b, a)
         IN  <<first>> \o SortedStrs(S \ {first})

\* "account" if present, else "entity", else the first column.
account_column(t) ==
    IF HasCol(t, "account") THEN "account"
    ELSE IF HasCol(t, "entity") THEN "entity" ELSE t.cols[1]

\* The keys of groupby(c): the distinct strings of the column, sorted; rows
\* with a null key are in no group.
GroupKeys(t, c) == SortedStrs({t.rows[i][c].s : i \in {j \in DOMAIN t.rows : IsStr(t.rows[j][c])}})

\* The amount_usd cells of the rows of one group, in row order.
GroupAmounts(t, c, key) ==
    Column(Filter(t, [i \in DOMAIN t.rows |-> t.rows[i][c] = Str(key)]), "amount_usd")

---------------------------------------------------------------------------
(* pnl_statement                                                           *)

\* period_data[mask]: the rows of the period that the mask selects,
\* converted.
period_category(df, fxt, period, mask) ==
    _fx_to_usd(Filter(df, [i \in DOMAIN df.rows |->
                              df.rows[i]["period"] = period /\ IsTs(period) /\ mask[i]]),
               fxt)

\* Line 469: the gross margin in percent, 0 unless revenue is positive.
PnlMarginPct(gross_profit, revenue) ==
    IF FGt(revenue, Zero) THEN FMul(FDiv(gross_profit, revenue), Num(100)) ELSE Zero

pnl_line(line_item, amount, type) ==
    [line_item |-> Str(line_item), amount |-> amount, type |-> Str(type)]

\* Lines 476-480: the opex totals per account, in the order of the keys.
opex_by_category(opex_data) ==
    IF Len(opex_data.rows) > 0
    THEN [i \in DOMAIN GroupKeys(opex_data, account_column(opex_data)) |->
            [category |-> GroupKeys(opex_data, account_column(opex_data))[i],
             amount |-> Sum(GroupAmounts(opex_data, account_column(opex_data),
                                         GroupKeys(opex_data, account_column(opex_data))[i]))]]
    ELSE <<>>

\* Line 482: sum(opex_by_category.values()).
total_opex(by_category) == Sum([i \in DOMAIN by_category |-> by_category[i].amount])

\* Lines 488-503: the lines of the statement.
pnl_lines(revenue, cogs, by_category) ==
    << pnl_line("Revenue", revenue, "revenue"),
       pnl_line("Cost of Goods Sold (COGS)", FNeg(cogs), "cogs"),
       pnl_line("Gross Profit", FSub(revenue, cogs), "gross_profit"),
       pnl_line("Gross Margin %", PnlMarginPct(FSub(revenue, cogs), revenue), "percentage") >>
    \o [i \in DOMAIN by_category |->
            pnl_line(by_category[i].category, FNeg(by_category[i].amount), "opex")]
    \o << pnl_line("Total Operating Expenses", FNeg(total_opex(by_category)), "total_opex"),
          pnl_line("EBITDA", FSub(FSub(revenue, cogs), total_opex(by_category)), "ebitda") >>

\* Lines 505-508: the table of the lines, with the month's label in every
\* row; a null period has no label.
labelled_table(cols, num, rows, period) ==
    IF IsNull(period) THEN Raise("ValueError", "NaTType does not support strftime")
    ELSE Table(Append(cols, "period"), num,
               [i \in DOMAIN rows |->
                   [c \in DOMAIN rows[i] \cup {"period"} |->
                       IF c = "period" THEN Str(MonthLabel(period)) ELSE rows[i][c]]])

pnl_table(period, revenue, cogs, by_category) ==
    labelled_table(<<"line_item", "amount", "type">>, {"amount"},
                   pnl_lines(revenue, cogs, by_category), period)

pnl_statement(d, month_text) ==
    Then(requested_period(month_text, d.actuals), LAMBDA period :
    Then(period_category(d.actuals, d.fx, period, _is_revenue_labels(_label_series(d.actuals))),
         LAMBDA rev :
    Then(period_category(d.actuals, d.fx, period, _is_cogs_labels(_label_series(d.actuals))),
         LAMBDA cogs :
    Then(period_category(d.actuals, d.fx, period, _is_opex_labels(_label_series(d.actuals))),
         LAMBDA opex_data :
        pnl_table(period, Sum(Column(rev, "amount_usd")), Sum(Column(cogs, "amount_usd")),
                  opex_by_category(opex_data))))))

---------------------------------------------------------------------------
(* budget_variance_analysis                                                *)

\* Lines 536, 552, 568, 580, 592: the variance in percent of the budget, 0
\* when the budget is 0.
VariancePct(actual, budgeted) ==
    IF ~FEq(budgeted, Zero)
    THEN FMul(FDiv(FSub(actual, budgeted), budgeted), Num(100))
    ELSE Zero

variance_row(category, actual, budgeted) ==
    [category |-> Str(category), actual |-> actual, budget |-> budgeted,
     variance |-> FSub(actual, budgeted),
     variance_pct |-> VariancePct(actual, budgeted)]

\* Lines 531-593 on the six totals of the period.
variance_rows(a_rev, b_rev, a_cogs, b_cogs, a_opex, b_opex) ==
    << variance_row("Revenue", a_rev, b_rev),
       variance_row("COGS", a_cogs, b_cogs),
       variance_row("Operating Expenses", a_opex, b_opex),
       variance_row("Gross Profit", FSub(a_rev, a_cogs), FSub(b_rev, b_cogs)),
       variance_row("EBITDA", FSub(FSub(a_rev, a_cogs), a_opex),
                    FSub(FSub(b_rev, b_cogs), b_opex)) >>

variance_table(period, rows) ==
    labelled_table(<<"category", "actual", "budget", "variance", "variance_pct">>,
                   {"actual", "budget", "variance", "variance_pct"}, rows, period)

budget_variance_analysis(d, month_text) ==
    Then(requested_period(month_text, d.actuals), LAMBDA period :
    Then(revenue_rows(d.actuals, d.fx), LAMBDA actual_rev :
    Then(revenue_rows(d.budget, d.fx), LAMBDA budget_rev :
    Then(cogs_rows(d.actuals, d.fx), LAMBDA actual_cogs :
    Then(cogs_rows(d.budget, d.fx), LAMBDA budget_cogs :
    Then(opex_rows(d.actuals, d.fx), LAMBDA actual_opex :
    Then(opex_rows(d.budget, d.fx), LAMBDA budget_opex :
        variance_table(period,
            variance_rows(PeriodTotal(actual_rev, period), PeriodTotal(budget_rev, period),
                          PeriodTotal(actual_cogs, period), PeriodTotal(budget_cogs, period),
                          PeriodTotal(actual_opex, period), PeriodTotal(budget_opex, period))))))))))

---------------------------------------------------------------------------
(* monthly_comparison                                                      *)

\* Lines 384-386: the change in percent of the previous month, 0 when the
\* previous month is 0.
ChangePct(previous, current) ==
    IF ~FEq(previous, Zero)
    THEN FMul(FDiv(FSub(current, previous), previous), Num(100))
    ELSE Zero

\* Lines 370-373: the gross margin in percent, 0 unless revenue is positive.
ComparisonMarginPct(revenue, cogs) ==
    IF FGt(revenue, Zero) THEN FMul(FDiv(FSub(revenue, cogs), revenue), Num(100)) ELSE Zero

\* Lines 349-378 for one period.
comparison_row(period, revenue, cogs, opex) ==
    [period |-> period, revenue |-> revenue, cogs |-> cogs, opex |-> opex,
     gross_margin_pct |-> ComparisonMarginPct(revenue, cogs),
     ebitda |-> EbitdaOf(revenue, cogs, opex)]

ComparisonColumns == <<"period", "revenue", "cogs", "opex", "gross_margin_pct", "ebitda">>
ChangeColumns == <<"revenue_change", "opex_change", "ebitda_change", "gm_change">>

\* Lines 383-387: the change columns, set in the second row and null in the
\* first.
with_changes(first, second) ==
    << [c \in DOMAIN first \cup Range(ChangeColumns) |->
            IF c \in DOMAIN first THEN first[c] ELSE NaN],
       [c \in DOMAIN second \cup Range(ChangeColumns) |->
            CASE c = "revenue_change" -> ChangePct(first["revenue"], second["revenue"])
              [] c = "opex_change" -> ChangePct(first["opex"], second["opex"])
              [] c = "ebitda_change" -> ChangePct(first["ebitda"], second["ebitda"])
              [] c = "gm_change" -> FSub(second["gross_margin_pct"], first["gross_margin_pct"])
              [] OTHER -> second[c]] >>

comparison_table(latest_periods, rev, cogs, opex) ==
    Table(ComparisonColumns \o ChangeColumns,
          Range(ComparisonColumns \o ChangeColumns) \ {"period"},
          with_changes(
              comparison_row(latest_periods[1], PeriodTotal(rev, latest_periods[1]),
                             PeriodTotal(cogs, latest_periods[1]),
                             PeriodTotal(opex, latest_periods[1])),
              comparison_row(latest_periods[2], PeriodTotal(rev, latest_periods[2]),
                             PeriodTotal(cogs, latest_periods[2]),
                             PeriodTotal(opex, latest_periods[2]))))

monthly_comparison(d) ==
    IF Len(period_index(d.actuals)) < 2 THEN EmptyTable
    ELSE Then(revenue_rows(d.actuals, d.fx), LAMBDA rev :
         Then(cogs_rows(d.actuals, d.fx), LAMBDA cogs :
         Then(opex_rows(d.actuals, d.fx), LAMBDA opex :
             comparison_table(TailSeq(period_index(d.actuals), 2), rev, cogs, opex))))

---------------------------------------------------------------------------
(* yearly_comparison                                                       *)

\* Lines 396-397: actuals with the year and the month of its period.
with_year_month(df) ==
    Assign(Assign(df, "year",
                  [i \in DOMAIN df.rows |->
                      IF IsTs(df.rows[i]["period"]) THEN Num(df.rows[i]["period"].y) ELSE NaN],
                  TRUE),
           "month",
           [i \in DOMAIN df.rows |->
               IF IsTs(df.rows[i]["period"]) THEN Num(df.rows[i]["period"].m) ELSE NaN],
           TRUE)

\* actuals['year'].max()
current_year(df) ==
    CHOOSE y \in {p.y : p \in PeriodsOf(df)} : \A z \in {p.y : p \in PeriodsOf(df)} : z <= y

\* f'revenue_{year}': the year is a float when some period is null.
RevenueColumn(df, year) ==
    "revenue_" \o NatStr(year)
        \o (IF \E i \in DOMAIN df.rows : IsNull(df.rows[i]["period"]) THEN ".0" ELSE "")

\* Lines 418-431: the revenue of one month of one year, 0 without rows.
month_revenue(df, fxt, year, month, rev_mask) ==
    IF \E i \in DOMAIN df.rows :
            df.rows[i]["year"] = Num(year) /\ df.rows[i]["month"] = Num(month) /\ rev_mask[i]
    THEN Then(_fx_to_usd(Filter(df, [i \in DOMAIN df.rows |->
                                        /\ df.rows[i]["year"] = Num(year)
                                        /\ df.rows[i]["month"] = Num(month)
                                        /\ rev_mask[i]]),
                         fxt),
              LAMBDA converted : Sum(Column(converted, "amount_usd")))
    ELSE Zero

\* Lines 434-438: the growth in percent of last year, 0 unless last year is
\* positive.
YoyGrowthPct(previous, current) ==
    IF FGt(previous, Zero)
    THEN FMul(FDiv(FSub(current, previous), previous), Num(100))
    ELSE Zero

yearly_row(df, month, current, previous) ==
    [c \in {"month", "month_name", RevenueColumn(df, current_year(df)),
            RevenueColumn(df, current_year(df) - 1), "yoy_growth_pct"} |->
        CASE c = "month" -> Num(month)
          [] c = "month_name" -> Str(MonthNames[month])
          [] c = "yoy_growth_pct" -> YoyGrowthPct(previous, current)
          [] c = RevenueColumn(df, current_year(df)) -> current
          [] OTHER -> previous]

\* The loop of lines 414-440: the rows of the first n months, or the first
\* exception.
RECURSIVE yearly_rows(_, _, _, _)
yearly_rows(df, fxt, rev_mask, n) ==
    IF n = 0 THEN [rows |-> <<>>]
    ELSE Then(yearly_rows(df, fxt, rev_mask, n - 1), LAMBDA before :
         Then(month_revenue(df, fxt, current_year(df), n, rev_mask), LAMBDA current :
         Then(month_revenue(df, fxt, current_year(df) - 1, n, rev_mask), LAMBDA previous :
             [rows |-> Append(before.rows, yearly_row(df, n, current, previous))])))

yearly_table(df, data) ==
    Table(<<"month", "month_name", RevenueColumn(df, current_year(df)),
            RevenueColumn(df, current_year(df) - 1), "yoy_growth_pct">>,
          {"month", RevenueColumn(df, current_year(df)),
           RevenueColumn(df, current_year(df) - 1), "yoy_growth_pct"},
          data.rows)

\* Lines 399-442 on actuals with its year and month columns.
yearly_frame(df, fxt) ==
    IF ~\E p \in PeriodsOf(df) : p.y = current_year(df) - 1 THEN EmptyTable
    ELSE Then(yearly_rows(df, fxt, _is_revenue_labels(_label_series(df)), 12),
              LAMBDA data : yearly_table(df, data))

yearly_comparison(d) == yearly_frame(with_year_month(d.actuals), d.fx)

---------------------------------------------------------------------------
(* Rolling means and rounding.                                             *)

\* Series.rolling(window, min_periods=1).mean() at position i: the mean of
\* the cells of the window that are not null, null when there is none.
\* (The window is summed anew at every position.)
RollingMean(series, i, window) ==
    IF \A j \in (IF i > window THEN i - window + 1 ELSE 1)..i : IsNull(series[j]) THEN NaN
    ELSE FDiv(Sum(SubSeq(series, IF i > window THEN i - window + 1 ELSE 1, i)),
              Num(Cardinality({j \in (IF i > window THEN i - window + 1 ELSE 1)..i :
                                  ~IsNull(series[j])})))

RECURSIVE PowerOfTen(_)
PowerOfTen(digits) == IF digits = 0 THEN 1 ELSE 10 * PowerOfTen(digits - 1)

\* The integer nearest to n/d (d > 0), the even one of two equally near.
NearestEven(n, d) ==
    IF 2 * (n % d) < d THEN n \div d
    ELSE IF 2 * (n % d) > d THEN (n \div d) + 1
    ELSE IF (n \div d) % 2 = 0 THEN n \div d ELSE (n \div d) + 1

\* Series.round(digits) on one cell.
Round(x, digits) ==
    IF IsNum(x)
    THEN Rat(NearestEven(x.n * PowerOfTen(digits), x.d), PowerOfTen(digits))
    ELSE x

---------------------------------------------------------------------------
(* revenue_growth_analysis                                                 *)

\* The window of the rolling averages (lines 686-687).
GrowthWindow == 3

\* How many trailing rows are returned (line 689).
GrowthRows == 12

\* Lines 674-676: the change of revenue in percent of the month before;
\* null in the first row, and what the division gives when the month
\* before is 0.
MomGrowthPct(revenue, i) ==
    IF i = 1 THEN NaN
    ELSE FMul(FDiv(FSub(revenue[i], revenue[i - 1]), revenue[i - 1]), Num(100))

\* The positions before i of the rows with the calendar month of row i.
SameMonthBefore(index, i) == {j \in 1..(i - 1) : index[j].m = index[i].m}

\* Line 683: groupby('month')['amount_usd'].pct_change(periods=1) * 100.
YoyPctChange(index, revenue, i) ==
    IF SameMonthBefore(index, i) = {} THEN NaN
    ELSE FMul(FSub(FDiv(revenue[i],
                        revenue[CHOOSE j \in SameMonthBefore(index, i) :
                                    \A k \in SameMonthBefore(index, i) : k <= j]),
                   Num(1)),
              Num(100))

GrowthColumns ==
    <<"period", "amount_usd", "prev_month_revenue", "mom_growth_pct", "year", "month",
      "yoy_growth_pct", "revenue_3m_avg", "growth_3m_avg">>

growth_row(index, revenue, i) ==
    [period |-> index[i],
     amount_usd |-> revenue[i],
     prev_month_revenue |-> (IF i = 1 THEN NaN ELSE revenue[i - 1]),
     mom_growth_pct |-> MomGrowthPct(revenue, i),
     year |-> Num(index[i].y),
     month |-> Num(index[i].m),
     yoy_growth_pct |-> YoyPctChange(index, revenue, i),
     revenue_3m_avg |-> RollingMean(revenue, i, GrowthWindow),
     growth_3m_avg |->
        RollingMean([j \in DOMAIN revenue |-> MomGrowthPct(revenue, j)], i, GrowthWindow)]

\* Lines 670-689 on the revenue totals per period.
growth_table(index, totals) ==
    Table(GrowthColumns, Range(GrowthColumns) \ {"period"},
          TailSeq([i \in DOMAIN index |->
                      growth_row(index, [j \in DOMAIN index |-> totals[index[j]]], i)],
                  GrowthRows))

revenue_growth_analysis(d) ==
    Then(revenue_rows(d.actuals, d.fx), LAMBDA rev :
        growth_table(SortedTs(PeriodsOf(rev)), GroupTotals(rev)))

---------------------------------------------------------------------------
(* top_expenses_analysis                                                   *)

\* Lines 697-702: _fx_to_usd(actuals[cogs_mask | opex_mask], fx).
expense_rows(df, fxt) ==
    converted_category(df, fxt,
        [i \in DOMAIN df.rows |->
            _is_cogs_labels(_label_series(df))[i] \/ _is_opex_labels(_label_series(df))[i]])

\* Lines 707-713 for one account: sum, mean and count, rounded.
expense_group(t, c, key) ==
    [category |-> Str(key),
     total_amount |-> Round(Sum(GroupAmounts(t, c, key)), 2),
     avg_monthly |-> Round(Mean(GroupAmounts(t, c, key)), 2),
     months_count |-> Num(Len(GroupAmounts(t, c, key)))]

\* sort_values('sum', ascending=False): the groups by falling total, groups
\* of one total in the order of their keys.
RECURSIVE by_falling_total(_)
by_falling_total(groups) ==
    IF Len(groups) = 0 THEN <<>>
    ELSE LET top == CHOOSE i \in DOMAIN groups :
                        /\ \A j \in DOMAIN groups :
                                ~FLt(groups[i].total_amount, groups[j].total_amount)
                        /\ \A j \in 1..(i - 1) :
                                FLt(groups[j].total_amount, groups[i].total_amount)
         IN  <<groups[top]>>
                \o by_falling_total(SelectSeq(groups, LAMBDA g : g # groups[top]))

\* Lines 716-717: the share of the total in percent, one decimal.
PercentageOfTotal(total_amount, total_all_expenses) ==
    Round(FMul(FDiv(total_amount, total_all_expenses), Num(100)), 1)

with_percentage(groups) ==
    [i \in DOMAIN groups |->
        [c \in DOMAIN groups[i] \cup {"percentage_of_total"} |->
            IF c = "percentage_of_total"
            THEN PercentageOfTotal(groups[i].total_amount,
                                   Sum([j \in DOMAIN groups |-> groups[j].total_amount]))
            ELSE groups[i][c]]]

expenses_table(t, c) ==
    Table(<<"category", "total_amount", "avg_monthly", "months_count", "percentage_of_total">>,
          {"total_amount", "avg_monthly", "months_count", "percentage_of_total"},
          with_percentage(by_falling_total(
              [i \in DOMAIN GroupKeys(t, c) |-> expense_group(t, c, GroupKeys(t, c)[i])])))

top_expenses_analysis(d) ==
    Then(expense_rows(d.actuals, d.fx), LAMBDA expense_usd :
        expenses_table(expense_usd, account_column(expense_usd)))

---------------------------------------------------------------------------
(* burn_rate_analysis                                                      *)

\* How many trailing rows are returned (line 658).
BurnRows == 12

\* The burn rate were it not floored.
BurnRateUnfloored(net_burn) == net_burn

\* Line 636: net_burn where it is positive, else 0.
BurnRate(net_burn) == IF FGt(net_burn, Zero) THEN net_burn ELSE Zero

\* Lines 628-636 for one period of the outer joins, nulls filled with 0.
burn_row(p, revenue, cogs, opex) ==
    [period |-> p, revenue |-> revenue, cogs |-> cogs, opex |-> opex,
     total_expenses |-> FAdd(cogs, opex),
     net_burn |-> FSub(FAdd(cogs, opex), revenue),
     burn_rate |-> BurnRate(FSub(FAdd(cogs, opex), revenue))]

burn_rows(index, rev, cogs, opex) ==
    [i \in DOMAIN index |->
        burn_row(index[i], FillNa(At(rev, index[i]), Zero),
                 FillNa(At(cogs, index[i]), Zero), FillNa(At(opex, index[i]), Zero))]

\* Lines 649-656: the months of runway of one row.
MonthsRunway(amount_usd, burn_rate_3m_avg) ==
    IF FGt(burn_rate_3m_avg, Zero)
    THEN (IF FDiv(amount_usd, burn_rate_3m_avg) = NegInf THEN NaN
          ELSE FDiv(amount_usd, burn_rate_3m_avg))
    ELSE PosInf

BurnColumns ==
    <<"period", "revenue", "cogs", "opex", "total_expenses", "net_burn", "burn_rate",
      "burn_rate_3m_avg", "amount_usd", "months_runway">>

\* Lines 639-656 for row i: the rolling average, the cash of the period
\* (left join) and the runway.
runway_row(rows, cash_monthly, i) ==
    [c \in DOMAIN rows[i] \cup {"burn_rate_3m_avg", "amount_usd", "months_runway"} |->
        CASE c = "burn_rate_3m_avg" ->
                RollingMean([j \in DOMAIN rows |-> rows[j].burn_rate], i, BurnWindow)
          [] c = "amount_usd" -> At(cash_monthly, rows[i].period)
          [] c = "months_runway" ->
                MonthsRunway(At(cash_monthly, rows[i].period),
                             RollingMean([j \in DOMAIN rows |-> rows[j].burn_rate], i, BurnWindow))
          [] OTHER -> rows[i][c]]

burn_table(rows, cash_monthly) ==
    Table(BurnColumns, Range(BurnColumns) \ {"period"},
          TailSeq([i \in DOMAIN rows |-> runway_row(rows, cash_monthly, i)], BurnRows))

burn_rate_analysis(d) ==
    Then(revenue_rows(d.actuals, d.fx), LAMBDA rev :
    Then(cogs_rows(d.actuals, d.fx), LAMBDA cogs :
    Then(opex_rows(d.actuals, d.fx), LAMBDA opex :
    Then(_fx_to_usd(d.cash, d.fx), LAMBDA cash_df :
        burn_table(burn_rows(SortedTs(PeriodsOf(rev) \cup PeriodsOf(cogs) \cup PeriodsOf(opex)),
                             GroupTotals(rev), GroupTotals(cogs), GroupTotals(opex)),
                   GroupTotals(cash_df))))))

---------------------------------------------------------------------------
(* The metric specification: the four tables as load_data makes them of   *)
(* the CSV files, and one call of a public tool on them.                   *)

MaxPeriods == 4
MaxRates == 2
MaxCashRows == 2

\* The month column of the files, as text.
MonthTexts ==
    <<"2025-05", "2025-06", "2025-07", "2025-08", "2025-09", "2025-10",
      "2025-11", "2025-12", "2026-01", "2026-02", "2026-03", "2026-04">>

Entry(account, amount, currency) ==
    [account |-> Str(account), amount |-> Num(amount), currency |-> Str(currency)]

\* What one month of actuals can hold: nothing; a profitable month; a month
\* of zero revenue; revenue in EUR only.
ActualsMonths ==
    << <<>>,
       <<Entry("Revenue", 100000, "USD"), Entry("COGS", 40000, "USD"),
         Entry("Opex:Marketing", 30000, "USD")>>,
       <<Entry("Revenue", 0, "USD"), Entry("COGS", 40000, "USD"),
         Entry("Opex:Payroll", 70000, "USD")>>,
       <<Entry("Revenue", 100000, "EUR")>> >>

\* What one month of budget can hold.
BudgetMonths ==
    << <<>>,
       <<Entry("Revenue", 90000, "USD")>>,
       <<Entry("Revenue", 90000, "EUR"), Entry("Opex:Marketing", 20000, "USD")>>,
       <<Entry("Revenue", 90000, "USD"), Entry("COGS", 30000, "USD"),
         Entry("Opex:Marketing", 20000, "USD")>> >>

\* The rows of month i of a file, from the entries chosen for it.
MonthRows(i, entries) ==
    [j \in DOMAIN entries |->
        [month |-> Str(MonthTexts[i]), account |-> entries[j].account,
         amount |-> entries[j].amount, currency |-> entries[j].currency]]

RECURSIVE LedgerRows(_, _, _, _)
LedgerRows(months, choice, descending, n) ==
    IF n = 0 THEN <<>>
    ELSE IF descending
    THEN MonthRows(n, months[choice[n]]) \o LedgerRows(months, choice, descending, n - 1)
    ELSE LedgerRows(months, choice, descending, n - 1) \o MonthRows(n, months[choice[n]])

\* A ledger file: per month one of the choices, the months in ascending or
\* descending order.
Ledger(months, choice, descending) ==
    read_csv(<<"month", "account", "amount", "currency">>,
             LedgerRows(months, choice, descending, Len(choice)))

ActualsFiles ==
    {Ledger(ActualsMonths, choice, descending) :
        choice \in [1..MaxPeriods -> DOMAIN ActualsMonths], descending \in BOOLEAN}

BudgetFiles ==
    {Ledger(BudgetMonths, choice, FALSE) : choice \in [1..MaxPeriods -> DOMAIN BudgetMonths]}

RateFiles ==
    {read_csv(<<"month", "currency", "rate_to_usd">>, rows) :
        rows \in SeqsUpTo({[month |-> Str(m), currency |-> Str("EUR"), rate_to_usd |-> r] :
                              m \in {"2025-06", "2025-07"}, r \in {Rat(11, 10), NaN}},
                          MaxRates)}

CashFiles ==
    {read_csv(<<"month", "cash_usd">>, rows) :
        rows \in SeqsUpTo({[month |-> Str(m), cash_usd |-> Num(c)] :
                              m \in {"2025-07", "2025-08"}, c \in {50000, -10000, 0}},
                          MaxCashRows)}

\* The files held fixed while another one varies.
ActualsFixture == Ledger(ActualsMonths, <<2, 4, 3, 3>>, FALSE)
BudgetFixture == Ledger(BudgetMonths, <<2, 2, 2, 2>>, FALSE)
RatesFixture ==
    read_csv(<<"month", "currency", "rate_to_usd">>,
             <<[month |-> Str("2025-06"), currency |-> Str("EUR"), rate_to_usd |-> Rat(11, 10)],
               [month |-> Str("2025-07"), currency |-> Str("EUR"), rate_to_usd |-> Rat(1085, 1000)]>>)
CashFixture ==
    read_csv(<<"month", "cash_usd">>,
             <<[month |-> Str("2025-07"), cash_usd |-> Num(60000)],
               [month |-> Str("2025-08"), cash_usd |-> Num(50000)]>>)

\* The fixtures, loaded.
ActualsLoaded == load_one(ActualsFixture)
BudgetLoaded == load_one(BudgetFixture)
RatesLoaded == load_one(RatesFixture)
CashLoaded == load_one(CashFixture)

\* One file varies, the others are the fixtures.
Init ==
    /\ \/ /\ \E file \in ActualsFiles : actuals = load_one(file)
          /\ budget = BudgetLoaded /\ fx = RatesLoaded /\ cash = CashLoaded
       \/ /\ \E file \in BudgetFiles : budget = load_one(file)
          /\ actuals = ActualsLoaded /\ fx = RatesLoaded /\ cash = CashLoaded
       \/ /\ \E file \in RateFiles : fx = load_one(file)
          /\ actuals = ActualsLoaded /\ budget = BudgetLoaded /\ cash = CashLoaded
       \/ /\ \E file \in CashFiles : cash = load_one(file)
          /\ actuals = ActualsLoaded /\ budget = BudgetLoaded /\ fx = RatesLoaded
    /\ labels = <<>>
    /\ loads = <<>>
    /\ call = NoCall
    /\ ret = NoResult

\* What load_data returns to the tool called.
Data == load_data(actuals, budget, fx, cash)

\* One call of a tool: its result, or the exception it raises, in ret.
Called(c, result) ==
    /\ call = NoCall
    /\ call' = c
    /\ ret' = result
    /\ UNCHANGED <<actuals, budget, fx, cash, labels, loads>>

MonthArgs == {"", "June 2025", "2025-07"}

\* The default of last_n_months.
DefaultTrendMonths == 3

RevenueVsBudget ==
    \E month_text \in MonthArgs :
        Called([op |-> "revenue_vs_budget", month_text |-> month_text],
               Then(Data, LAMBDA d : revenue_vs_budget(d, month_text)))

GrossMarginTrend ==
    \E n \in 0..DefaultTrendMonths :
        Called([op |-> "gross_margin_trend", last_n_months |-> n],
               Then(Data, LAMBDA d : gross_margin_trend(d, n)))

EbitdaProxy ==
    Called([op |-> "ebitda_proxy"], Then(Data, LAMBDA d : ebitda_proxy(d)))

CashRunwayMonths ==
    Called([op |-> "cash_runway_months"], Then(Data, LAMBDA d : cash_runway_months(d)))

QuarterlySummary ==
    Called([op |-> "quarterly_summary"], Then(Data, LAMBDA d : quarterly_summary(d)))

PnlStatement ==
    \E month_text \in MonthArgs :
        Called([op |-> "pnl_statement", month_text |-> month_text],
               Then(Data, LAMBDA d : pnl_statement(d, month_text)))

BudgetVarianceAnalysis ==
    \E month_text \in MonthArgs :
        Called([op |-> "budget_variance_analysis", month_text |-> month_text],
               Then(Data, LAMBDA d : budget_variance_analysis(d, month_text)))

Next ==
    \/ RevenueVsBudget
    \/ GrossMarginTrend
    \/ EbitdaProxy
    \/ CashRunwayMonths
    \/ QuarterlySummary
    \/ PnlStatement
    \/ BudgetVarianceAnalysis

Spec == Init /\ [][Next]_vars

Returned(op) == call.op = op /\ ~IsError(ret)

---------------------------------------------------------------------------
(* What the claims speak of, stated on the tables themselves.              *)

\* The tables loaded, so that a tool has something to compute on.
TablesLoaded == ~IsError(Data)

\* The sum of the function f over a finite set S of its domain.
RECURSIVE SumOver(_, _)
SumOver(S, f) ==
    IF S = {} THEN Zero
    ELSE LET x == CHOOSE y \in S : TRUE
         IN  FAdd(f[x], SumOver(S \ {x}, f))

\* The currency of a row, USD in a table without currencies.
CurrencyOf(r) == IF "currency" \in DOMAIN r THEN r["currency"] ELSE Str("USD")

\* The rate of a row: that of the FX entry for its period and currency,
\* 1.0 when there is none or it is null.
RateFor(r) ==
    LET entries == {j \in DOMAIN fx.rows :
                        /\ fx.rows[j]["period"] = r["period"]
                        /\ fx.rows[j]["currency"] = CurrencyOf(r)}
    IN  IF entries = {} THEN Num(1)
        ELSE FillNa(fx.rows[CHOOSE j \in entries : \A k \in entries : j <= k]["rate_to_usd"],
                    Num(1))

\* The USD amount of a row: its amount, 0 when not a number, at its rate.
UsdOf(r) == FMul(FillNa(ToNumeric(r["amount"]), Zero), RateFor(r))

\* The rows of a table of one category and one period.
RowsIn(t, category(_), p) ==
    {i \in DOMAIN t.rows : category(t.rows[i]["account"]) /\ t.rows[i]["period"] = p}

\* The USD total of one category in one period of a table.
CategoryTotal(t, category(_), p) ==
    SumOver(RowsIn(t, category, p), [i \in DOMAIN t.rows |-> UsdOf(t.rows[i])])

\* The periods of a table, ascending.
Periods(t) == SortedTs({t.rows[i]["period"] : i \in DOMAIN t.rows})

Latest(t) == Periods(t)[Len(Periods(t))]

\* The month a call of revenue_vs_budget is about.
AskedMonth ==
    IF call.month_text = "" THEN Latest(actuals) ELSE MonthStart(ParseDateStr(call.month_text))

\* C5: revenue_vs_budget(month) returns (A, B, label): A the sum of
\* amount_usd over the revenue rows of actuals of that month, B the same
\* over budget, label "<Month name> <year>"; without a month, the latest
\* period of actuals is used.
C5_RevenueVsBudget ==
    (call.op = "revenue_vs_budget" /\ TablesLoaded) =>
        ret = [actual |-> CategoryTotal(actuals, is_revenue, AskedMonth),
               budget |-> CategoryTotal(budget, is_revenue, AskedMonth),
               label  |-> MonthLabel(AskedMonth)]

\* C5, where revenue_vs_budget returns and no FX entry is doubled.
C5_WhenReturned ==
    (Returned("revenue_vs_budget") /\ TablesLoaded) =>
        \/ \E i, j \in DOMAIN fx.rows :
                i # j /\ fx.rows[i]["period"] = fx.rows[j]["period"]
                      /\ fx.rows[i]["currency"] = fx.rows[j]["currency"]
        \/ ret = [actual |-> CategoryTotal(actuals, is_revenue, AskedMonth),
                  budget |-> CategoryTotal(budget, is_revenue, AskedMonth),
                  label  |-> MonthLabel(AskedMonth)]

\* No two entries of the FX table are for the same period and currency.
RatesUnique ==
    \A i, j \in DOMAIN fx.rows :
        (/\ fx.rows[i]["period"] = fx.rows[j]["period"]
         /\ fx.rows[i]["currency"] = fx.rows[j]["currency"]) => i = j

\* The EBITDA proxy of one period: revenue - COGS - opex.
EbitdaIn(p) ==
    FSub(FSub(CategoryTotal(actuals, is_revenue, p), CategoryTotal(actuals, is_cogs, p)),
         CategoryTotal(actuals, is_opex, p))

\* The last n elements of a sequence (all of them when it has fewer).
LastOf(seq, n) == [i \in 1..(IF Len(seq) < n THEN Len(seq) ELSE n) |->
                      seq[Len(seq) - (IF Len(seq) < n THEN Len(seq) ELSE n) + i]]

\* The average net burn over the last 3 periods of actuals.
AverageBurn ==
    FDiv(SumOver(Range(LastOf(Periods(actuals), 3)),
                 [p \in Range(Periods(actuals)) |-> FNeg(EbitdaIn(p))]),
         Num(Len(LastOf(Periods(actuals), 3))))

\* The latest cash balance: the USD total of the latest period of the cash
\* table.
LatestCash ==
    SumOver({i \in DOMAIN cash.rows : cash.rows[i]["period"] = Latest(cash)},
            [i \in DOMAIN cash.rows |-> UsdOf(cash.rows[i])])

\* C6: cash_runway_months averages the net burn (minus the EBITDA proxy)
\* over the last 3 periods of actuals, fewer if fewer exist; it returns
\* runway = infinity when that average is <= 0, whatever the cash balance,
\* and latest cash / average burn otherwise.
C6_RunwayFromAverageBurn ==
    (call.op = "cash_runway_months" /\ TablesLoaded) =>
        /\ ~IsError(ret)
        /\ ret.runway = (IF FLe(AverageBurn, Zero) THEN PosInf
                         ELSE FDiv(LatestCash, AverageBurn))

\* C6, where cash_runway_months returns, no FX entry is doubled and the
\* latest period of the cash table has one row.
C6_WhenReturned ==
    (/\ Returned("cash_runway_months") /\ TablesLoaded /\ RatesUnique
     /\ Cardinality({i \in DOMAIN cash.rows : cash.rows[i]["period"] = Latest(cash)}) = 1) =>
        ret.runway = (IF FLe(AverageBurn, Zero) THEN PosInf
                      ELSE FDiv(LatestCash, AverageBurn))

\* The average burn the call computed.
BurnOfCall == average_burn(ebitda_proxy(Data))

\* Cash balances and average burns to compare a result with.
CashValues == {Num(c) : c \in {-10000, 0, 50000, 60000}}
BurnValues == {Num(b) : b \in {-30000, 0, 35000, 70000, 110000}}

\* C7: with the burn fixed a larger cash balance never gives a smaller
\* runway, and with the cash balance fixed a smaller average burn never
\* gives a smaller runway, for every cash balance and burn.
C7_RunwayMonotone ==
    (Returned("cash_runway_months") /\ TablesLoaded) =>
        /\ \A c \in CashValues :
              FLe(ret.cash_usd, c) => FLe(ret.runway, Runway(c, BurnOfCall))
        /\ \A b \in BurnValues :
              FLe(b, BurnOfCall) => FLe(ret.runway, Runway(ret.cash_usd, b))

\* C7, for cash balances that are not negative.
C7_MonotoneCashNotNegative ==
    (Returned("cash_runway_months") /\ TablesLoaded /\ FGe(ret.cash_usd, Zero)) =>
        /\ \A c \in CashValues :
              FLe(ret.cash_usd, c) => FLe(ret.runway, Runway(c, BurnOfCall))
        /\ \A b \in BurnValues :
              FLe(b, BurnOfCall) => FLe(ret.runway, Runway(ret.cash_usd, b))

\* The periods of actuals with a revenue or a COGS row, ascending.
MarginPeriods ==
    SortedTs({actuals.rows[i]["period"] :
                i \in {j \in DOMAIN actuals.rows :
                          is_revenue(actuals.rows[j]["account"])
                              \/ is_cogs(actuals.rows[j]["account"])}})

\* The periods of the rows of a result, in its order.
PeriodsReported == [i \in DOMAIN ret.rows |-> ret.rows[i]["period"]]

\* The period has revenue rows and each has amount 0.
ZeroRevenue(p) ==
    /\ RowsIn(actuals, is_revenue, p) # {}
    /\ \A i \in RowsIn(actuals, is_revenue, p) : actuals.rows[i]["amount"] = Zero

\* (revenue - cogs) / revenue * 100 of a period.
MarginIn(p) ==
    FMul(FDiv(FSub(CategoryTotal(actuals, is_revenue, p), CategoryTotal(actuals, is_cogs, p)),
              CategoryTotal(actuals, is_revenue, p)),
         Num(100))

\* What gross_margin_trend is to report for the periods it covers.
MarginsAsClaimed ==
    \A p \in Range(LastOf(MarginPeriods, call.last_n_months)) :
        /\ ZeroRevenue(p) =>
              \E i \in DOMAIN ret.rows :
                  ret.rows[i]["period"] = p /\ IsNull(ret.rows[i]["gm_pct"])
        /\ CategoryTotal(actuals, is_revenue, p) # Zero =>
              \E i \in DOMAIN ret.rows :
                  ret.rows[i]["period"] = p /\ ret.rows[i]["gm_pct"] = MarginIn(p)

\* The quarters of actuals whose revenue rows all have amount 0.
ZeroRevenueQuarters ==
    {q \in {QuarterOf(p) : p \in Range(Periods(actuals))} :
        /\ \E p \in Range(Periods(actuals)) : QuarterOf(p) = q /\ ZeroRevenue(p)
        /\ \A p \in Range(Periods(actuals)) :
              QuarterOf(p) = q => CategoryTotal(actuals, is_revenue, p) = Zero}

\* What quarterly_summary is to report for the quarters of zero revenue.
ZeroQuartersAsClaimed ==
    \A q \in ZeroRevenueQuarters :
        \E i \in DOMAIN ret.rows :
            /\ ret.rows[i]["quarter"] = Str(QuarterLabel(q))
            /\ ret.rows[i]["gross_margin_pct"] = Zero

\* C8: for a period whose revenue rows all have amount 0, gross_margin_trend
\* reports a null gm_pct and quarterly_summary reports gross_margin_pct = 0
\* for the quarter of zero revenue; for a period of non-zero revenue
\* gross_margin_trend reports gm_pct = (revenue - cogs) / revenue * 100.
C8_ZeroRevenueMargins ==
    /\ (call.op = "gross_margin_trend" /\ TablesLoaded) => ~IsError(ret) /\ MarginsAsClaimed
    /\ (call.op = "quarterly_summary" /\ TablesLoaded) => ~IsError(ret) /\ ZeroQuartersAsClaimed

\* C8, where the tool returns and no FX entry is doubled.
C8_WhenReturned ==
    /\ (Returned("gross_margin_trend") /\ TablesLoaded /\ RatesUnique) => MarginsAsClaimed
    /\ (Returned("quarterly_summary") /\ TablesLoaded /\ RatesUnique) => ZeroQuartersAsClaimed

\* What gross_margin_trend(n) is to return: the last n periods with a
\* revenue or a COGS row, ascending, each row with a period and a gm_pct.
TrendAsClaimed ==
    /\ Len(ret.rows) <= call.last_n_months
    /\ PeriodsReported = LastOf(MarginPeriods, call.last_n_months)
    /\ \A i \in DOMAIN ret.rows : {"period", "gm_pct"} \subseteq DOMAIN ret.rows[i]

\* C9: gross_margin_trend(n) returns at most n rows, the n chronologically
\* latest periods having a revenue or COGS row, in ascending order, each
\* with a period and a gm_pct.
C9_LastPeriodsAscending ==
    (call.op = "gross_margin_trend" /\ TablesLoaded) => ~IsError(ret) /\ TrendAsClaimed

\* C9, where gross_margin_trend returns.
C9_WhenReturned ==
    (Returned("gross_margin_trend") /\ TablesLoaded) => TrendAsClaimed

\* What ebitda_proxy is to return: a row per period of actuals, ascending,
\* a category without rows in the period counting 0.
EbitdaAsClaimed ==
    /\ PeriodsReported = Periods(actuals)
    /\ \A i \in DOMAIN ret.rows :
          /\ ret.rows[i]["revenue_usd"] = CategoryTotal(actuals, is_revenue, ret.rows[i]["period"])
          /\ ret.rows[i]["cogs_usd"] = CategoryTotal(actuals, is_cogs, ret.rows[i]["period"])
          /\ ret.rows[i]["opex_usd"] = CategoryTotal(actuals, is_opex, ret.rows[i]["period"])
          /\ ret.rows[i]["ebitda_proxy_usd"] = EbitdaIn(ret.rows[i]["period"])

\* C10: ebitda_proxy returns exactly one row per distinct period of actuals,
\* ascending, with ebitda_proxy_usd = revenue_usd - cogs_usd - opex_usd, a
\* category without rows in a period contributing 0 for it.
C10_EbitdaPerPeriod ==
    (call.op = "ebitda_proxy" /\ TablesLoaded) => ~IsError(ret) /\ EbitdaAsClaimed

\* C10, where ebitda_proxy returns and no FX entry is doubled.
C10_WhenReturned ==
    (Returned("ebitda_proxy") /\ TablesLoaded /\ RatesUnique) => EbitdaAsClaimed


---------------------------------------------------------------------------
(* Category aggregates: what a tool reports for one category of one table  *)
(* in one month or quarter, and the rows that aggregate is made of.        *)

IsCategory(category, label) ==
    CASE category = "revenue" -> is_revenue(label)
      [] category = "cogs" -> is_cogs(label)
      [] category = "opex" -> is_opex(label)

TableNamed(name) == IF name = "actuals" THEN actuals ELSE budget

Slot(table, category, key) == [table |-> table, category |-> category, key |-> key]

\* The aggregates a call reports.
Slots ==
    CASE call.op = "revenue_vs_budget" ->
            {Slot(t, "revenue", AskedMonth) : t \in {"actuals", "budget"}}
      [] call.op = "budget_variance_analysis" ->
            {Slot(t, c, AskedMonth) : t \in {"actuals", "budget"}, c \in Categories}
      [] call.op = "pnl_statement" ->
            {Slot("actuals", c, AskedMonth) : c \in Categories}
      [] call.op = "ebitda_proxy" ->
            {Slot("actuals", c, p) : c \in Categories, p \in PeriodsOf(actuals)}
      [] call.op = "quarterly_summary" ->
            {Slot("actuals", c, QuarterOf(p)) : c \in Categories, p \in PeriodsOf(actuals)}
      [] OTHER -> {}

\* The rows of its table that an aggregate is over.
SlotRows(slot) ==
    {i \in DOMAIN TableNamed(slot.table).rows :
        /\ IsCategory(slot.category, TableNamed(slot.table).rows[i]["account"])
        /\ IF slot.key.k = "quarter"
           THEN QuarterOf(TableNamed(slot.table).rows[i]["period"]) = slot.key
           ELSE TableNamed(slot.table).rows[i]["period"] = slot.key}

\* The one row of ret with the value v in column c.
RowWith(c, v) == ret.rows[CHOOSE i \in DOMAIN ret.rows : ret.rows[i][c] = v]

VarianceCategory(category) ==
    CASE category = "revenue" -> "Revenue"
      [] category = "cogs" -> "COGS"
      [] category = "opex" -> "Operating Expenses"

PnlLine(category) ==
    CASE category = "revenue" -> "Revenue"
      [] category = "cogs" -> "Cost of Goods Sold (COGS)"
      [] category = "opex" -> "Total Operating Expenses"

\* What the returned result reports for an aggregate.
Reported(slot) ==
    CASE call.op = "revenue_vs_budget" ->
            (IF slot.table = "actuals" THEN ret.actual ELSE ret.budget)
      [] call.op = "budget_variance_analysis" ->
            (IF slot.table = "actuals"
             THEN RowWith("category", Str(VarianceCategory(slot.category)))["actual"]
             ELSE RowWith("category", Str(VarianceCategory(slot.category)))["budget"])
      [] call.op = "pnl_statement" ->
            (IF slot.category = "revenue"
             THEN RowWith("line_item", Str("Revenue"))["amount"]
             ELSE FNeg(RowWith("line_item", Str(PnlLine(slot.category)))["amount"]))
      [] call.op = "ebitda_proxy" ->
            RowWith("period", slot.key)[slot.category \o "_usd"]
      [] call.op = "quarterly_summary" ->
            RowWith("quarter", Str(QuarterLabel(slot.key)))[slot.category]

MissingSlots == {slot \in Slots : SlotRows(slot) = {}}

\* C11: when a category has no row at all in actuals or budget, or none in
\* the month (or quarter) asked for, revenue_vs_budget, ebitda_proxy,
\* budget_variance_analysis, pnl_statement and quarterly_summary do not fail
\* and report 0 for that category's aggregate.
C11_MissingCategoryIsZero ==
    (TablesLoaded /\ MissingSlots # {}) =>
        /\ ~IsError(ret)
        /\ \A slot \in MissingSlots : Reported(slot) = Zero

\* C11, where the tool returns: the aggregate of a category without rows in
\* the month or quarter is 0.
C11_ZeroWhenReturned ==
    (TablesLoaded /\ ~IsError(ret)) =>
        \A slot \in MissingSlots : Reported(slot) = Zero

\* C11, for a category with rows in the table but none in the month asked
\* for: revenue_vs_budget and budget_variance_analysis do not fail.
C11_AbsentFromMonthOnly ==
    (/\ TablesLoaded
     /\ call.op \in {"revenue_vs_budget", "budget_variance_analysis"}
     /\ \A slot \in Slots :
            \E i \in DOMAIN TableNamed(slot.table).rows :
                IsCategory(slot.category, TableNamed(slot.table).rows[i]["account"]))
        => ~IsError(ret)


---------------------------------------------------------------------------
(* The analysis specification: actuals that reach back into the year       *)
(* before, with months of zero revenue and of zero expenses, and one call  *)
(* of a comparison, growth, expense or burn tool on them.                  *)

MaxMonths == 4

AnalysisMonthTexts == <<"2024-06", "2025-05", "2025-06", "2025-07", "2025-08", "2025-09">>

\* What one month of actuals can hold: nothing; a profitable month; a month
\* of zero revenue that burns cash; a dormant month, all amounts 0.
AnalysisMonths ==
    << <<>>,
       <<Entry("Revenue", 100000, "EUR"), Entry("COGS", 40000, "USD"),
         Entry("Opex:Marketing", 30000, "USD")>>,
       <<Entry("Revenue", 0, "USD"), Entry("COGS", 40000, "USD"),
         Entry("Opex:Payroll", 70000, "USD")>>,
       <<Entry("Revenue", 0, "USD"), Entry("COGS", 0, "USD"),
         Entry("Opex:Marketing", 0, "USD")>> >>

RECURSIVE AnalysisRows(_, _)
AnalysisRows(choice, n) ==
    IF n = 0 THEN <<>>
    ELSE AnalysisRows(choice, n - 1)
            \o [j \in DOMAIN AnalysisMonths[choice[n]] |->
                   [month |-> Str(AnalysisMonthTexts[n]),
                    account |-> AnalysisMonths[choice[n]][j].account,
                    amount |-> AnalysisMonths[choice[n]][j].amount,
                    currency |-> AnalysisMonths[choice[n]][j].currency]]

AnalysisFiles ==
    {read_csv(<<"month", "account", "amount", "currency">>, AnalysisRows(choice, MaxMonths)) :
        choice \in [1..MaxMonths -> DOMAIN AnalysisMonths]}

\* The budget of the analysis: every category budgeted, COGS at 0 in June.
BudgetPlan ==
    read_csv(<<"month", "account", "amount", "currency">>,
             <<[month |-> Str("2025-06"), account |-> Str("Revenue"),
                amount |-> Num(90000), currency |-> Str("USD")],
               [month |-> Str("2025-06"), account |-> Str("COGS"),
                amount |-> Num(0), currency |-> Str("USD")],
               [month |-> Str("2025-06"), account |-> Str("Opex:Marketing"),
                amount |-> Num(20000), currency |-> Str("USD")],
               [month |-> Str("2025-07"), account |-> Str("Revenue"),
                amount |-> Num(90000), currency |-> Str("USD")],
               [month |-> Str("2025-07"), account |-> Str("COGS"),
                amount |-> Num(30000), currency |-> Str("USD")],
               [month |-> Str("2025-07"), account |-> Str("Opex:Marketing"),
                amount |-> Num(20000), currency |-> Str("USD")]>>)

BudgetPlanLoaded == load_one(BudgetPlan)

InitAnalysis ==
    /\ \E file \in AnalysisFiles : actuals = load_one(file)
    /\ budget = BudgetPlanLoaded
    /\ fx = RatesLoaded
    /\ cash = CashLoaded
    /\ labels = <<>>
    /\ loads = <<>>
    /\ call = NoCall
    /\ ret = NoResult

MonthlyComparison ==
    Called([op |-> "monthly_comparison"], Then(Data, LAMBDA d : monthly_comparison(d)))

YearlyComparison ==
    Called([op |-> "yearly_comparison"], Then(Data, LAMBDA d : yearly_comparison(d)))

RevenueGrowthAnalysis ==
    Called([op |-> "revenue_growth_analysis"],
           Then(Data, LAMBDA d : revenue_growth_analysis(d)))

TopExpensesAnalysis ==
    Called([op |-> "top_expenses_analysis"], Then(Data, LAMBDA d : top_expenses_analysis(d)))

BurnRateAnalysis ==
    Called([op |-> "burn_rate_analysis"], Then(Data, LAMBDA d : burn_rate_analysis(d)))

NextAnalysis ==
    \/ MonthlyComparison
    \/ YearlyComparison
    \/ RevenueGrowthAnalysis
    \/ TopExpensesAnalysis
    \/ BurnRateAnalysis
    \/ BudgetVarianceAnalysis
    \/ QuarterlySummary

SpecAnalysis == InitAnalysis /\ [][NextAnalysis]_vars


---------------------------------------------------------------------------
(* Percentages and ratios: the cells of a returned table that are a        *)
(* percentage, each with the denominator it was divided by.                *)

Ratio(row, column, denominator) ==
    [row |-> row, column |-> column, denominator |-> denominator]

\* The row before row i with the calendar month of row i, 0 if none.
SameMonthRowBefore(i) ==
    IF \E j \in 1..(i - 1) : ret.rows[j]["month"] = ret.rows[i]["month"]
    THEN CHOOSE j \in 1..(i - 1) :
            /\ ret.rows[j]["month"] = ret.rows[i]["month"]
            /\ \A k \in (j + 1)..(i - 1) : ret.rows[k]["month"] # ret.rows[i]["month"]
    ELSE 0

\* The column of yearly_comparison with last year's revenue.
LastYearColumn == ret.cols[4]

Ratios ==
    CASE call.op = "budget_variance_analysis" ->
            {Ratio(i, "variance_pct", ret.rows[i]["budget"]) : i \in DOMAIN ret.rows}
      [] call.op = "monthly_comparison" ->
            {Ratio(2, c[1], ret.rows[1][c[2]]) :
                c \in (IF Len(ret.rows) = 2
                       THEN {<<"revenue_change", "revenue">>, <<"opex_change", "opex">>,
                             <<"ebitda_change", "ebitda">>}
                       ELSE {})}
      [] call.op = "yearly_comparison" ->
            {Ratio(i, "yoy_growth_pct", ret.rows[i][LastYearColumn]) : i \in DOMAIN ret.rows}
      [] call.op = "revenue_growth_analysis" ->
            {Ratio(i, "mom_growth_pct", ret.rows[i - 1]["amount_usd"]) :
                i \in DOMAIN ret.rows \ {1}}
            \cup {Ratio(i, "yoy_growth_pct", ret.rows[SameMonthRowBefore(i)]["amount_usd"]) :
                    i \in {j \in DOMAIN ret.rows : SameMonthRowBefore(j) # 0}}
      [] call.op = "quarterly_summary" ->
            {Ratio(i, c[1], ret.rows[i - 1][c[2]]) :
                i \in DOMAIN ret.rows \ {1},
                c \in {<<"revenue_qoq_growth", "revenue">>, <<"ebitda_qoq_growth", "ebitda">>}}
      [] call.op = "top_expenses_analysis" ->
            {Ratio(i, "percentage_of_total",
                   Sum([j \in DOMAIN ret.rows |-> ret.rows[j]["total_amount"]])) :
                i \in DOMAIN ret.rows}
      [] OTHER -> {}

\* The percentages of the result whose denominator is 0.
ZeroDenominators == {r \in Ratios : FEq(r.denominator, Zero)}

\* C12: in every metric function a percentage or ratio whose denominator is
\* zero is reported as 0: variance_pct of budget_variance_analysis, the
\* change columns of monthly_comparison, yoy_growth_pct of
\* yearly_comparison, mom_growth_pct and yoy_growth_pct of
\* revenue_growth_analysis, the two qoq growth columns of quarterly_summary
\* and percentage_of_total of top_expenses_analysis.
C12_ZeroDenominatorIsZero ==
    (call # NoCall /\ ~IsError(ret)) =>
        \A r \in ZeroDenominators : ret.rows[r.row][r.column] = Zero

\* C12, for the tools that test the denominator before they divide:
\* budget_variance_analysis, monthly_comparison and yearly_comparison
\* report 0 for a percentage of 0.
C12_GuardedPercentages ==
    (/\ call.op \in {"budget_variance_analysis", "monthly_comparison", "yearly_comparison"}
     /\ ~IsError(ret))
        => \A r \in ZeroDenominators : ret.rows[r.row][r.column] = Zero

\* C12, for the tools that divide without a test: a percentage of 0 in
\* revenue_growth_analysis, quarterly_summary and top_expenses_analysis is
\* never 0 but infinite or null.
C12_UnguardedPercentages ==
    (/\ call.op \in {"revenue_growth_analysis", "quarterly_summary", "top_expenses_analysis"}
     /\ ~IsError(ret))
        => \A r \in ZeroDenominators :
                ret.rows[r.row][r.column] \in {NaN, PosInf, NegInf}


---------------------------------------------------------------------------
(* The normalizer specification: one table as pandas.read_csv reads it of  *)
(* a CSV file, and one call of a normalizer on it.                         *)

MaxSchemaRows == 2

\* A field of a CSV that pandas reads as a number or as empty.
NumericText(x) == IsNull(x) \/ ~IsNull(ToNumeric(x))

\* pandas.read_csv on the fields of a file: a column all of whose fields
\* are numbers or empty is numeric, any other column keeps its texts.
typed_rows(cols, rows) ==
    [i \in DOMAIN rows |->
        [c \in Range(cols) |->
            IF \A j \in DOMAIN rows : NumericText(rows[j][c])
            THEN ToNumeric(rows[i][c]) ELSE rows[i][c]]]

read_fields(cols, rows) == read_csv(cols, typed_rows(cols, rows))

\* The files: their header, and the fields a row of theirs can hold.
\*  - a ledger with a period column, whose period, amount and currency can
\*    be unreadable or empty;
\*  - a ledger under alias names without a currency column;
\*  - a ledger with a year and a month column;
\*  - a table without any time column;
\*  - a ledger with two aliases of the account and of the amount;
\*  - a table without an amount alias, with numeric columns.
SchemaFiles ==
    {[cols |-> <<"Period", "Account", "Amount", "Currency">>,
      fields |-> ("Period" :> {Str("2025-06"), Str("unknown"), NaN})
                 @@ ("Account" :> {Str("Revenue")})
                 @@ ("Amount" :> {Str("1000"), Str("abc")})
                 @@ ("Currency" :> {Str("EUR"), NaN})],
     [cols |-> <<"Month", "Line Item", "Value">>,
      fields |-> ("Month" :> {Str("2025-06"), Str("2025-07"), Str("unknown")})
                 @@ ("Line Item" :> {Str("Revenue")})
                 @@ ("Value" :> {Str("1000"), Str("abc"), NaN})],
     [cols |-> <<"Year", "Month", "Amount">>,
      fields |-> ("Year" :> {Str("2025"), Str("abc"), NaN})
                 @@ ("Month" :> {Str("6"), Str("June"), Str("2025-06")})
                 @@ ("Amount" :> {Str("1000")})],
     [cols |-> <<"Account", "Note">>,
      fields |-> ("Account" :> {Str("Revenue"), Str("COGS")})
                 @@ ("Note" :> {Str("abc"), NaN})],
     [cols |-> <<"Category", "GL Account", "Total", "Value", "Ccy", "Company">>,
      fields |-> ("Category" :> {Str("COGS")})
                 @@ ("GL Account" :> {Str("Revenue")})
                 @@ ("Total" :> {Str("5")})
                 @@ ("Value" :> {Str("1000"), Str("abc")})
                 @@ ("Ccy" :> {Str("EUR")})
                 @@ ("Company" :> {Str("ParentCo")})],
     [cols |-> <<"Month", "Rate", "Units", "Cost">>,
      fields |-> ("Month" :> {Str("2025-06")})
                 @@ ("Rate" :> {Str("2")})
                 @@ ("Units" :> {Str("3"), Str("abc")})
                 @@ ("Cost" :> {Str("7")})]}

\* The rows a file can hold: one of its fields in every column.
FileRows(file) ==
    {r \in [Range(file.cols) -> UNION {file.fields[c] : c \in Range(file.cols)}] :
        \A c \in Range(file.cols) : r[c] \in file.fields[c]}

\* The tables read of the files with up to MaxSchemaRows rows.
SchemaTables ==
    UNION {{read_fields(file.cols, rows) : rows \in SeqsUpTo(FileRows(file), MaxSchemaRows)} :
            file \in SchemaFiles}

\* The table read is held in actuals; fx is the rate table as loaded.
InitSchema ==
    /\ actuals \in SchemaTables
    /\ fx = RatesLoaded
    /\ budget = EmptyTable
    /\ cash = EmptyTable
    /\ labels = <<>>
    /\ loads = <<>>
    /\ call = NoCall
    /\ ret = NoResult

\* _standardize_schema(df) on the table read.
StandardizeSchema == Called([op |-> "_standardize_schema"], _standardize_schema(actuals))

\* _ensure_period_columns(df) on the table read.
EnsurePeriodColumns == Called([op |-> "_ensure_period_columns"], _ensure_period_columns(actuals))

\* load_data on the table read: both normalizers in turn.
LoadTable == Called([op |-> "load_data"], load_one(actuals))

\* _fx_to_usd on the table as load_data returns it.
ConvertTable ==
    Called([op |-> "_fx_to_usd"], Then(load_one(actuals), LAMBDA df : _fx_to_usd(df, fx)))

NextSchema == StandardizeSchema \/ EnsurePeriodColumns \/ LoadTable \/ ConvertTable

SpecSchema == InitSchema /\ [][NextSchema]_vars


\* The call of a period normalizer returned a table.
PeriodsNormalized == call.op \in {"_ensure_period_columns", "load_data"} /\ ~IsError(ret)

\* C13: whenever _ensure_period_columns returns, every row of the returned
\* table has a non-null period that is the first day of a month; a table
\* with a row whose time value cannot be resolved is rejected, not returned
\* with a null period.
C13_EveryPeriodResolved ==
    PeriodsNormalized =>
        \A i \in DOMAIN ret.rows :
            IsTs(ret.rows[i]["period"]) /\ ret.rows[i]["period"].d = 1

\* C13, for the periods that are resolved: whenever _ensure_period_columns
\* returns, a period that is not null is the first day of a month.
C13_ResolvedPeriodsAreMonthStarts ==
    PeriodsNormalized =>
        \A i \in DOMAIN ret.rows :
            IsNull(ret.rows[i]["period"])
                \/ (IsTs(ret.rows[i]["period"]) /\ ret.rows[i]["period"].d = 1)


\* The table was normalized and converted.
TableConverted == call.op = "_fx_to_usd" /\ ~IsError(ret)

\* C15: downstream of schema normalization and currency conversion the
\* currency of every row is non-null: a row whose currency is missing, by
\* an absent column or by a null cell of an existing column, has currency
\* "USD".
C15_CurrencyNeverNull ==
    TableConverted =>
        /\ HasCol(ret, "currency")
        /\ \A i \in DOMAIN ret.rows : ~IsNull(ret.rows[i]["currency"])

\* C15, for the absent column: a table without a currency column has
\* currency "USD" in every row after the conversion.
C15_AbsentColumnIsUsd ==
    (TableConverted /\ ~HasCol(_standardize_schema(actuals), "currency")) =>
        /\ HasCol(ret, "currency")
        /\ \A i \in DOMAIN ret.rows : ret.rows[i]["currency"] = Str("USD")

\* C15, for the existing column: its cells pass the normalization and the
\* conversion as they are, the null ones as null.
C15_ExistingColumnIsKept ==
    (TableConverted /\ HasCol(_standardize_schema(actuals), "currency")) =>
        Column(ret, "currency") = Column(_standardize_schema(actuals), "currency")


\* The schema normalizer returned a table with an amount column.
AmountStandardized ==
    call.op = "_standardize_schema" /\ ~IsError(ret) /\ HasCol(ret, "amount")

\* C16: after _standardize_schema every value of the amount column of the
\* output is numeric or null, for every input table, one whose amount
\* column is already named "amount" and holds non-numeric text included.
C16_AmountIsNumeric ==
    AmountStandardized => \A i \in DOMAIN ret.rows : IsFloat(ret.rows[i]["amount"])

\* C16, for an amount column under another name: the amount column made of
\* it is numeric or null in every row, and null where the text is no number.
C16_AliasedAmountIsNumeric ==
    (AmountStandardized /\ ~HasCol(RenameColumns(actuals), "amount")) =>
        \A i \in DOMAIN ret.rows :
            /\ IsFloat(ret.rows[i]["amount"])
            /\ ret.rows[i]["amount"] = ToNumeric(ret.rows[i][amount_source(RenameColumns(actuals))])

\* C16, for the error: _standardize_schema raises on no table.
C16_NoErrorRaised == call.op = "_standardize_schema" => ~IsError(ret)


\* The period normalizer failed on the table read.
PeriodFailed == call.op = "_ensure_period_columns" /\ IsError(ret)

\* The error of line 89, which names the columns of the table.
NoTimeColumn(df) ==
    Raise("ValueError",
          "Expected a recognizable time column (date/year+month/period). Found columns: "
              \o JoinNames(df.cols))

\* The strategies other than the year and month pair find no period in df.
NoSingleColumn(df) ==
    /\ period_column(df, LowerAll(df.cols)) = None
    /\ date_named_column(df, LowerAll(df.cols)) = None
    /\ yyyymm_column(df, LowerAll(df.cols)) = None
    /\ brute_force_column(df) = None

\* C18: _ensure_period_columns fails only when none of its strategies
\* succeeds, and every failure is the descriptive error naming the columns;
\* a strategy that cannot parse its column, as a year column that holds no
\* integers, passes control to the next strategy instead of aborting.
C18_FailsOnlyWithoutStrategy ==
    PeriodFailed =>
        /\ ret = NoTimeColumn(actuals)
        /\ NoSingleColumn(actuals)
        /\ ~("series" \in DOMAIN year_month_columns(actuals, LowerAll(actuals.cols)))

\* C18, for a table without a year and month pair: a failure is the
\* descriptive error, raised when no strategy finds a period.
C18_DescriptiveWithoutYearMonth ==
    (PeriodFailed /\ year_month_columns(actuals, LowerAll(actuals.cols)) = None) =>
        ret = NoTimeColumn(actuals) /\ NoSingleColumn(actuals)

\* C18, for a table with a year and month pair that no earlier strategy
\* resolves: the exception of the pair's conversion is what the call raises,
\* whatever the later strategies would find.
C18_YearMonthAborts ==
    (/\ call.op = "_ensure_period_columns"
     /\ period_column(actuals, LowerAll(actuals.cols)) = None
     /\ date_named_column(actuals, LowerAll(actuals.cols)) = None
     /\ IsError(year_month_columns(actuals, LowerAll(actuals.cols))))
        => ret = year_month_columns(actuals, LowerAll(actuals.cols))


---------------------------------------------------------------------------
(* The rate source specification: record sets with and without an amount   *)
(* or another numeric column, FX tables with one, both or none of the rate *)
(* columns, and one call of _fx_to_usd on them.                            *)

\* The record sets: with an amount; without one but with a numeric column;
\* without any numeric column; without a time column.
RecordFiles ==
    {[cols |-> <<"period", "account", "amount", "currency">>,
      fields |-> ("period" :> {June}) @@ ("account" :> {Str("Revenue")})
                 @@ ("amount" :> {Num(1000)}) @@ ("currency" :> {Str("EUR"), Str("USD")})],
     [cols |-> <<"period", "account", "units", "currency">>,
      fields |-> ("period" :> {June}) @@ ("account" :> {Str("Revenue")})
                 @@ ("units" :> {Num(5)}) @@ ("currency" :> {Str("EUR"), Str("USD")})],
     [cols |-> <<"period", "account", "currency">>,
      fields |-> ("period" :> {June}) @@ ("account" :> {Str("Revenue")})
                 @@ ("currency" :> {Str("EUR"), Str("USD")})],
     [cols |-> <<"account">>,
      fields |-> ("account" :> {Str("Revenue")})]}

\* The FX tables: the rate under rate_to_usd, under rate, under both names
\* with different values, and under neither.
FxFiles ==
    {[cols |-> <<"period", "currency", "rate_to_usd">>,
      fields |-> ("period" :> {June, July}) @@ ("currency" :> {Str("EUR")})
                 @@ ("rate_to_usd" :> {Rat(11, 10), NaN})],
     [cols |-> <<"period", "currency", "rate">>,
      fields |-> ("period" :> {June, July}) @@ ("currency" :> {Str("EUR")})
                 @@ ("rate" :> {Num(2)})],
     [cols |-> <<"period", "currency", "rate_to_usd", "rate">>,
      fields |-> ("period" :> {June, July}) @@ ("currency" :> {Str("EUR")})
                 @@ ("rate_to_usd" :> {Rat(11, 10), NaN}) @@ ("rate" :> {Num(2)})],
     [cols |-> <<"period", "currency">>,
      fields |-> ("period" :> {June, July}) @@ ("currency" :> {Str("EUR")})]}

TablesOf(files, n) ==
    UNION {{read_csv(file.cols, rows) : rows \in SeqsUpTo(FileRows(file), n)} : file \in files}

InitRates ==
    /\ actuals \in TablesOf(RecordFiles, MaxDfRows)
    /\ fx \in TablesOf(FxFiles, MaxFxRows)
    /\ budget = EmptyTable
    /\ cash = EmptyTable
    /\ labels = <<>>
    /\ loads = <<>>
    /\ call = NoCall
    /\ ret = NoResult

SpecRates == InitRates /\ [][NextFx]_vars

\* The two errors _fx_to_usd raises itself.
NoRateColumn == Raise("ValueError", "FX CSV must include 'rate_to_usd' or 'rate' column")
NoAmountColumn == Raise("ValueError", "No amount-like numeric column found for FX conversion.")

\* The entries of fx for the period and currency of row r of the result.
RatesOf(r) ==
    {i \in DOMAIN fx.rows :
        /\ MonthStart(ToDatetime(fx.rows[i]["period"])) = r["period"]
        /\ fx.rows[i]["currency"] = r["currency"]}

\* C17: _fx_to_usd fails with a descriptive error when the FX table has
\* neither a rate_to_usd nor a rate column, whatever the record set is; when
\* both columns are present the rate of a row is taken of rate_to_usd; and
\* it fails with a descriptive error (of the amount, or of an earlier step:
\* the time column of either table) when the record set has no amount
\* column and no numeric column other than the rate_to_usd merged in.
C17_RateSourceAndAmount ==
    call.op = "_fx_to_usd" =>
        /\ (~HasCol(fx, "rate_to_usd") /\ ~HasCol(fx, "rate")) => ret = NoRateColumn
        /\ (HasCol(fx, "rate_to_usd") /\ HasCol(fx, "rate") /\ ~IsError(ret)) =>
                \A i \in DOMAIN ret.rows :
                    ret.rows[i]["rate_to_usd"] \in
                        IF RatesOf(ret.rows[i]) = {} THEN {Num(1)}
                        ELSE {FillNa(fx.rows[j]["rate_to_usd"], Num(1)) : j \in RatesOf(ret.rows[i])}
        /\ (~HasCol(actuals, "amount") /\ actuals.num \subseteq {"rate_to_usd"}) =>
                /\ IsError(ret)
                /\ ret \in {NoRateColumn, NoAmountColumn,
                            NoTimeColumn(with_currency(actuals)), NoTimeColumn(fx)}
                /\ (/\ rate_column(fx) # ""
                    /\ ~IsError(_ensure_period_columns(with_currency(actuals)))
                    /\ ~IsError(_ensure_period_columns(fx))) => ret = NoAmountColumn

\* A row was converted at the rate_to_usd of an FX table that holds another
\* value under rate.
C17_Witness ==
    /\ call.op = "_fx_to_usd" /\ ~IsError(ret)
    /\ HasCol(fx, "rate_to_usd") /\ HasCol(fx, "rate")
    /\ \E i \in DOMAIN ret.rows :
            /\ RatesOf(ret.rows[i]) # {}
            /\ ret.rows[i]["rate_to_usd"] = Rat(11, 10)
            /\ ret.rows[i]["amount_usd"] = Num(1100)


---------------------------------------------------------------------------
(* burn_rate_analysis: the rows it returns.                                *)

BurnReturned == call.op = "burn_rate_analysis" /\ ~IsError(ret)

\* C19: in every row burn_rate_analysis returns, net_burn = total_expenses
\* - revenue with total_expenses = cogs + opex, and burn_rate is the larger
\* of net_burn and 0, so never negative: 0 for a profitable month.
C19_BurnRateFloored ==
    BurnReturned =>
        \A i \in DOMAIN ret.rows :
            /\ ret.rows[i]["total_expenses"] = FAdd(ret.rows[i]["cogs"], ret.rows[i]["opex"])
            /\ ret.rows[i]["net_burn"]
                    = FSub(ret.rows[i]["total_expenses"], ret.rows[i]["revenue"])
            /\ FGe(ret.rows[i]["burn_rate"], Zero)
            /\ FGe(ret.rows[i]["burn_rate"], ret.rows[i]["net_burn"])
            /\ ret.rows[i]["burn_rate"] \in {Zero, ret.rows[i]["net_burn"]}

\* A profitable month with burn_rate 0 next to a month that burns cash.
C19_Witness ==
    /\ BurnReturned
    /\ \E i \in DOMAIN ret.rows :
            FLt(ret.rows[i]["net_burn"], Zero) /\ ret.rows[i]["burn_rate"] = Zero
    /\ \E i \in DOMAIN ret.rows :
            FGt(ret.rows[i]["net_burn"], Zero)
                /\ ret.rows[i]["burn_rate"] = ret.rows[i]["net_burn"]


---------------------------------------------------------------------------
(* budget_variance_analysis: the rows it returns.                          *)

VarianceCategories ==
    <<"Revenue", "COGS", "Operating Expenses", "Gross Profit", "EBITDA">>

\* The five rows of the claim: the categories in their order, the variance
\* and its percentage in every row, and the two derived rows.
VarianceAsClaimed(rows) ==
    /\ Len(rows) = 5
    /\ \A i \in 1..5 :
            /\ rows[i]["category"] = Str(VarianceCategories[i])
            /\ rows[i]["variance"] = FSub(rows[i]["actual"], rows[i]["budget"])
            /\ rows[i]["variance_pct"] =
                    IF rows[i]["budget"] = Zero THEN Zero
                    ELSE FMul(FDiv(rows[i]["variance"], rows[i]["budget"]), Num(100))
    /\ \A c \in {"actual", "budget", "variance"} :
            /\ rows[4][c] = FSub(rows[1][c], rows[2][c])
            /\ rows[5][c] = FSub(rows[4][c], rows[3][c])

\* C20: budget_variance_analysis(period) returns exactly five rows
\* (Revenue, COGS, Operating Expenses, Gross Profit, EBITDA), each with
\* variance = actual - budget and variance_pct = variance / budget * 100, or
\* 0 when the budget is 0; Gross Profit is Revenue minus COGS and EBITDA is
\* Gross Profit minus Operating Expenses, for actual, budget and variance.
C20_FiveVarianceRows ==
    (TablesLoaded /\ call.op = "budget_variance_analysis") =>
        ~IsError(ret) /\ VarianceAsClaimed(ret.rows)

\* C20, where budget_variance_analysis returns: the five rows are as
\* claimed.
C20_WhenReturned ==
    Returned("budget_variance_analysis") => VarianceAsClaimed(ret.rows)


---------------------------------------------------------------------------
(* The loading specification: the four CSV files as pandas.read_csv reads  *)
(* them, and a sequence of queries on them.  Every query calls load_data   *)
(* and computes on the tables it returns; yearly_comparison and            *)
(* quarterly_summary add columns to their copy of actuals.  loads records  *)
(* of every call of load_data what it read, what it returned, and the      *)
(* tables the query left in memory.                                        *)

MaxLoads == 3
MaxLoadMonths == 2

\* The tables in memory were a call to read them instead of the files.
_read_csvs_cached(files, memory) ==
    IF "actuals" \in DOMAIN memory THEN memory ELSE files

\* _read_csvs: the four files, read anew; nothing of the tables an earlier
\* query left in memory.
_read_csvs(files, memory) == files

\* load_data on the tables read.
load_tables(read) ==
    load_data(load_one(read.actuals), load_one(read.budget), load_one(read.fx),
              load_one(read.cash))

LoadFiles ==
    {read_csv(<<"month", "account", "amount", "currency">>, AnalysisRows(choice, MaxLoadMonths)) :
        choice \in [1..MaxLoadMonths -> DOMAIN AnalysisMonths]}

\* The files are held in actuals, budget, fx and cash.
InitLoad ==
    /\ actuals \in LoadFiles
    /\ budget = BudgetPlan
    /\ fx = RatesFixture
    /\ cash = CashFixture
    /\ labels = <<>>
    /\ loads = <<>>
    /\ call = NoCall
    /\ ret = NoResult

\* What the last query left in memory.
LastMemory == IF loads = <<>> THEN NoResult ELSE loads[Len(loads)].memory

\* What _read_csvs reads now.
ReadNow == _read_csvs(Loaded(actuals, budget, cash, fx), LastMemory)

\* One query: what its call of load_data read and returned, the tables it
\* leaves in memory and its result.  No query writes a file.
Queried(op, read, tables, memory, result) ==
    /\ loads' = Append(loads, [op |-> op, read |-> read, tables |-> tables,
                               memory |-> memory])
    /\ call' = [op |-> op]
    /\ ret' = result
    /\ UNCHANGED <<actuals, budget, fx, cash, labels>>

\* load_data()
LoadData ==
    /\ Len(loads) < MaxLoads
    /\ \E d \in {load_tables(ReadNow)} : Queried("load_data", ReadNow, d, d, d)

\* yearly_comparison(): lines 396-397 add year and month to its actuals.
YearlyComparisonQuery ==
    /\ Len(loads) < MaxLoads
    /\ \E d \in {load_tables(ReadNow)} :
        Queried("yearly_comparison", ReadNow, d,
                Then(d, LAMBDA t : [t EXCEPT !.actuals = with_year_month(t.actuals)]),
                Then(d, LAMBDA t : yearly_comparison(t)))

\* quarterly_summary(): line 727 adds quarter to its actuals.
QuarterlySummaryQuery ==
    /\ Len(loads) < MaxLoads
    /\ \E d \in {load_tables(ReadNow)} :
        Queried("quarterly_summary", ReadNow, d,
                Then(d, LAMBDA t : [t EXCEPT !.actuals = with_quarter(t.actuals)]),
                Then(d, LAMBDA t : quarterly_summary(t)))

NextLoad == LoadData \/ YearlyComparisonQuery \/ QuarterlySummaryQuery

SpecLoad == InitLoad /\ [][NextLoad]_vars

Intent(name, period) == [name |-> name, period |-> period]

IsLowerLetter(c) ==
    c \in {"a", "b", "c", "d", "e", "f", "g", "h", "i", "j", "k", "l", "m",
           "n", "o", "p", "q", "r", "s", "t", "u", "v", "w", "x", "y", "z"}

\* The regex class \s on the characters a question holds.
IsSpace(c) == c = " "

RECURSIVE LettersEnd(_, _)
\* The position after the longest run of [a-z] that starts at i.
LettersEnd(s, i) ==
    IF i <= Len(s) /\ IsLowerLetter(SubSeq(s, i, i)) THEN LettersEnd(s, i + 1) ELSE i

RECURSIVE SpacesEnd(_, _)
\* The position after the longest run of \s that starts at i.
SpacesEnd(s, i) ==
    IF i <= Len(s) /\ IsSpace(SubSeq(s, i, i)) THEN SpacesEnd(s, i + 1) ELSE i

RECURSIVE DigitsEnd(_, _)
\* The position after the longest run of \d that starts at i.
DigitsEnd(s, i) ==
    IF i <= Len(s) /\ IsDigit(SubSeq(s, i, i)) THEN DigitsEnd(s, i + 1) ELSE i

\* The alternation (jan|feb|...|sep|sept|...|dec): "sept" begins with "sep",
\* so the three-letter prefixes decide whether it matches.
MonthPrefixes ==
    {"jan", "feb", "mar", "apr", "may", "jun", "jul", "aug", "sep", "oct", "nov", "dec"}

\* The end of a match of (jan|...|dec)[a-z]*\s+\d{4} that starts at i, or 0.
\* [a-z]* must take the whole run of letters, because \s has to follow it.
month_year_end(s, i) ==
    IF i + 2 <= Len(s) /\ SubSeq(s, i, i + 2) \in MonthPrefixes
          /\ SpacesEnd(s, LettersEnd(s, i + 3)) > LettersEnd(s, i + 3)
          /\ SpacesEnd(s, LettersEnd(s, i + 3)) + 3 <= Len(s)
          /\ AllDigits(SubSeq(s, SpacesEnd(s, LettersEnd(s, i + 3)),
                              SpacesEnd(s, LettersEnd(s, i + 3)) + 3))
    THEN SpacesEnd(s, LettersEnd(s, i + 3)) + 3
    ELSE 0

\* re.search(month-year pattern, ql): m.group(0) of the leftmost match, or
\* None (intent.py:21-24, 50-53, 57-60, 91-94).
month_year_period(ql) ==
    IF \E i \in 1..Len(ql) : month_year_end(ql, i) > 0
    THEN Str(SubSeq(ql,
                    CHOOSE i \in 1..Len(ql) :
                        /\ month_year_end(ql, i) > 0
                        /\ \A j \in 1..(i - 1) : month_year_end(ql, j) = 0,
                    month_year_end(ql,
                        CHOOSE i \in 1..Len(ql) :
                            /\ month_year_end(ql, i) > 0
                            /\ \A j \in 1..(i - 1) : month_year_end(ql, j) = 0)))
    ELSE None

\* The digits captured by last\s+(\d+)\s+months? when it matches at i, or "".
\* \d+ takes the whole run of digits, because \s has to follow it.
last_months_digits(s, i) ==
    IF i + 3 <= Len(s) /\ SubSeq(s, i, i + 3) = "last"
          /\ SpacesEnd(s, i + 4) > i + 4
          /\ DigitsEnd(s, SpacesEnd(s, i + 4)) > SpacesEnd(s, i + 4)
          /\ SpacesEnd(s, DigitsEnd(s, SpacesEnd(s, i + 4)))
                > DigitsEnd(s, SpacesEnd(s, i + 4))
          /\ Slice(s, SpacesEnd(s, DigitsEnd(s, SpacesEnd(s, i + 4))),
                   SpacesEnd(s, DigitsEnd(s, SpacesEnd(s, i + 4))) + 4) = "month"
    THEN SubSeq(s, SpacesEnd(s, i + 4), DigitsEnd(s, SpacesEnd(s, i + 4)) - 1)
    ELSE ""

\* intent.py:29-33: "last N months" of the leftmost match, else "last 3 months".
last_months_period(ql) ==
    IF \E i \in 1..Len(ql) : last_months_digits(ql, i) # ""
    THEN Str("last " \o last_months_digits(ql,
                 CHOOSE i \in 1..Len(ql) :
                     /\ last_months_digits(ql, i) # ""
                     /\ \A j \in 1..(i - 1) : last_months_digits(ql, j) = "")
             \o " months")
    ELSE Str("last 3 months")

\* The conditions of the if-statements of classify_intent, in source order
\* (intent.py:16, 20, 28, 35, 41, 45, 49, 56, 63, 67, 73, 77, 82, 86, 90, 97, 101).
rule_table(ql) ==
    << [name |-> "cash_runway",
        when |-> Contains(ql, "cash runway")
                   \/ (Contains(ql, "runway") /\ Contains(ql, "cash"))],
       [name |-> "revenue_vs_budget",
        when |-> Contains(ql, "revenue") /\ Contains(ql, "budget")],
       [name |-> "gm_trend",
        when |-> Contains(ql, "gross margin")
                   /\ (Contains(ql, "trend") \/ Contains(ql, "last"))],
       [name |-> "ebitda",
        when |-> Contains(ql, "ebitda") \/ Contains(ql, "earnings")],
       [name |-> "monthly_comparison",
        when |-> Contains(ql, "month over month") \/ Contains(ql, "mom")
                   \/ Contains(ql, "monthly comparison")],
       [name |-> "yearly_comparison",
        when |-> Contains(ql, "year over year") \/ Contains(ql, "yoy")
                   \/ Contains(ql, "yearly comparison")],
       [name |-> "pnl_statement",
        when |-> (Contains(ql, "profit and loss") \/ Contains(ql, "p&l")
                    \/ Contains(ql, "income statement"))
                   /\ ~Contains(ql, "trend")],
       [name |-> "budget_variance",
        when |-> (Contains(ql, "variance") \/ Contains(ql, "vs budget"))
                   /\ ~Contains(ql, "revenue")],
       [name |-> "cost_structure",
        when |-> Contains(ql, "cost structure") \/ Contains(ql, "cost breakdown")
                   \/ Contains(ql, "cost analysis")],
       [name |-> "quarterly",
        when |-> Contains(ql, "quarterly") \/ Contains(ql, "quarter")],
       [name |-> "burn_rate",
        when |-> Contains(ql, "burn rate") \/ Contains(ql, "monthly burn")
                   \/ Contains(ql, "spending rate")],
       [name |-> "financial_health",
        when |-> Contains(ql, "financial health") \/ Contains(ql, "key metrics")
                   \/ Contains(ql, "kpi") \/ Contains(ql, "financial summary")
                   \/ Contains(ql, "performance metrics")],
       [name |-> "top_expenses",
        when |-> Contains(ql, "top expenses") \/ Contains(ql, "biggest costs")
                   \/ Contains(ql, "largest expenses")],
       [name |-> "revenue_growth",
        when |-> Contains(ql, "revenue growth") \/ Contains(ql, "growth rate")
                   \/ Contains(ql, "revenue trend")],
       [name |-> "opex_breakdown",
        when |-> (Contains(ql, "opex") \/ Contains(ql, "operating expense"))
                   /\ (Contains(ql, "breakdown") \/ Contains(ql, "by category"))],
       [name |-> "dashboard",
        when |-> Contains(ql, "dashboard") \/ Contains(ql, "overview")
                   \/ Contains(ql, "summary")],
       [name |-> "revenue",
        when |-> Contains(ql, "revenue")] >>

\* The cascade read the other way round: the last rule that matches wins.
last_match(rules) ==
    IF \E i \in DOMAIN rules : rules[i].when
    THEN rules[CHOOSE i \in DOMAIN rules :
                   rules[i].when /\ \A j \in DOMAIN rules : j > i => ~rules[j].when].name
    ELSE "unknown"

\* An if-statement that returns ends the function: the first rule whose
\* condition holds is the one that answers, and line 103 answers otherwise.
first_match(rules) ==
    IF \E i \in DOMAIN rules : rules[i].when
    THEN rules[CHOOSE i \in DOMAIN rules :
                   rules[i].when /\ \A j \in 1..(i - 1) : ~rules[j].when].name
    ELSE "unknown"

\* The return statement of the rule that answers.
rule_intent(rule, ql) ==
    CASE rule = "revenue_vs_budget" -> Intent("revenue_vs_budget", month_year_period(ql))
      [] rule = "gm_trend" -> Intent("gm_trend", last_months_period(ql))
      [] rule = "ebitda" ->
            IF Contains(ql, "trend") \/ Contains(ql, "analysis")
            THEN Intent("ebitda_trend", None) ELSE Intent("ebitda", None)
      [] rule = "pnl_statement" -> Intent("pnl_statement", month_year_period(ql))
      [] rule = "budget_variance" -> Intent("budget_variance", month_year_period(ql))
      [] rule = "quarterly" ->
            IF Contains(ql, "trend") \/ Contains(ql, "comparison")
            THEN Intent("quarterly_trends", None) ELSE Intent("quarterly_summary", None)
      [] rule = "opex_breakdown" -> Intent("opex_breakdown", month_year_period(ql))
      [] OTHER -> Intent(rule, None)

\* classify_intent(q): ql = q.lower().strip(), then the cascade.
classify_intent(q) ==
    rule_intent(first_match(rule_table(Strip(Lower(q)))), Strip(Lower(q)))

\* ---------------------------------------------------------------------------
\* Dispatch of a classified intent: src/features/intents.py.
\* ---------------------------------------------------------------------------

\* A call of a metric function of agent/tools.py with its argument.
ToolCall(fn, arg) == [fn |-> fn, arg |-> arg]

RECURSIVE WordEnd(_, _)
\* The position after the longest run of non-blank characters from i.
WordEnd(s, i) ==
    IF i <= Len(s) /\ ~IsSpace(SubSeq(s, i, i)) THEN WordEnd(s, i + 1) ELSE i

\* period.split()[1], or "" where the index is out of range.
second_word(s) ==
    SubSeq(s, SpacesEnd(s, WordEnd(s, SpacesEnd(s, 1))),
           WordEnd(s, SpacesEnd(s, WordEnd(s, SpacesEnd(s, 1)))) - 1)

\* intents.py:27-32: n = int(period.split()[1]) when the period holds "last",
\* and 3 when it does not or when the conversion raises.
trend_months(period) ==
    IF period # None /\ Contains(period.s, "last") /\ AllDigits(second_word(period.s))
    THEN DigitsVal(second_word(period.s))
    ELSE 3

\* The branch of the if/elif chain of handle_intent that intent.name selects
\* (intents.py:21, 26, 37, 43, 51, 56, 111, 116, 132, 145, 176, 190, 227, 318),
\* or "help" for the else of line 365.
handler_branch(name) ==
    CASE name = "revenue_vs_budget" -> "revenue_vs_budget"
      [] name = "gm_trend" -> "gm_trend"
      [] name = "opex_breakdown" -> "opex_breakdown"
      [] name = "cash_runway" -> "cash_runway"
      [] name = "ebitda" \/ name = "ebitda_trend" -> "ebitda"
      [] name = "dashboard" -> "dashboard"
      [] name = "revenue" -> "revenue"
      [] name = "monthly_comparison" -> "monthly_comparison"
      [] name = "budget_variance" -> "budget_variance"
      [] name = "pnl_statement" -> "pnl_statement"
      [] name = "revenue_growth" -> "revenue_growth"
      [] name = "top_expenses" -> "top_expenses"
      [] name = "burn_rate" -> "burn_rate"
      [] name = "financial_health" \/ name = "quarterly_summary" -> "quarterly_summary"
      [] OTHER -> "help"

\* The metric functions the selected branch calls, in order.
branch_calls(intent) ==
    CASE handler_branch(intent.name) = "revenue_vs_budget" ->
            <<ToolCall("revenue_vs_budget", intent.period)>>
      [] handler_branch(intent.name) = "gm_trend" ->
            <<ToolCall("gross_margin_trend", Num(trend_months(intent.period)))>>
      [] handler_branch(intent.name) = "opex_breakdown" ->
            <<ToolCall("opex_breakdown", intent.period)>>
      [] handler_branch(intent.name) = "cash_runway" ->
            <<ToolCall("cash_runway_months", None)>>
      [] handler_branch(intent.name) = "ebitda" ->
            <<ToolCall("ebitda_proxy", None)>>
      [] handler_branch(intent.name) = "dashboard" ->
            <<ToolCall("revenue_vs_budget", None), ToolCall("gross_margin_trend", Num(1)),
              ToolCall("ebitda_proxy", None), ToolCall("cash_runway_months", None),
              ToolCall("gross_margin_trend", Num(3)), ToolCall("opex_breakdown", None)>>
      [] handler_branch(intent.name) = "revenue" ->
            <<ToolCall("revenue_vs_budget", None)>>
      [] handler_branch(intent.name) = "monthly_comparison" ->
            <<ToolCall("monthly_comparison", None)>>
      [] handler_branch(intent.name) = "budget_variance" ->
            <<ToolCall("budget_variance_analysis", intent.period)>>
      [] handler_branch(intent.name) = "pnl_statement" ->
            <<ToolCall("pnl_statement", intent.period)>>
      [] handler_branch(intent.name) = "revenue_growth" ->
            <<ToolCall("revenue_growth_analysis", None)>>
      [] handler_branch(intent.name) = "top_expenses" ->
            <<ToolCall("top_expenses_analysis", None)>>
      [] handler_branch(intent.name) = "burn_rate" ->
            <<ToolCall("burn_rate_analysis", None)>>
      [] handler_branch(intent.name) = "quarterly_summary" ->
            <<ToolCall("quarterly_summary", None)>>
      [] OTHER -> <<>>

\* The expander below the chain runs after every branch (intents.py:407-420).
additional_analysis ==
    <<ToolCall("gross_margin_trend", Num(6)), ToolCall("ebitda_proxy", None)>>

\* handle_intent(intent): what the page shows and the metric functions called.
handle_intent(intent) ==
    [branch |-> handler_branch(intent.name),
     help |-> handler_branch(intent.name) = "help",
     calls |-> branch_calls(intent) \o additional_analysis]

\* ---------------------------------------------------------------------------
\* The questions a user asks: the samples the page offers, the tests' query
\* tables, the examples of the help text, and phrases of trigger words.
\* ---------------------------------------------------------------------------

Asked(q, intent) == [q |-> q, intent |-> intent]

\* components/blocks.py:12-34, each with the intent its wording asks for.
SampleQuestions ==
    << Asked("What was June 2025 revenue vs budget?", "revenue_vs_budget"),
       Asked("Show me gross margin trends", "gm_trend"),
       Asked("Give me month over month comparison", "monthly_comparison"),
       Asked("What's our EBITDA this month?", "ebitda"),
       Asked("What's our cash runway?", "cash_runway"),
       Asked("Show me budget variance analysis", "budget_variance"),
       Asked("What's our burn rate trends?", "burn_rate"),
       Asked("Give me quarterly financial summary", "quarterly_summary"),
       Asked("What's our revenue growth rate?", "revenue_growth"),
       Asked("Show me top expense categories", "top_expenses"),
       Asked("Give me P&L statement for June 2025", "pnl_statement"),
       Asked("Show me financial health metrics", "financial_health"),
       Asked("Show me the dashboard", "dashboard") >>

\* tests/test_enhanced.py:17-28 and tests/test_enhanced_functions.py:17-26.
TestQueries ==
    << Asked("Show me month over month comparison", "monthly_comparison"),
       Asked("Give me year over year revenue trends", "yearly_comparison"),
       Asked("Show me P&L statement for June 2025", "pnl_statement"),
       Asked("What's our budget variance this month?", "budget_variance"),
       Asked("Show me burn rate analysis", "burn_rate"),
       Asked("What's our revenue growth rate?", "revenue_growth"),
       Asked("Show me top expense categories", "top_expenses"),
       Asked("Give me quarterly financial summary", "quarterly_summary"),
       Asked("Show me financial health metrics", "financial_health"),
       Asked("What's our cost structure?", "cost_structure") >>

\* The examples of the help text, features/intents.py:368-394.
HelpQuestions ==
    << Asked("Show me financial health", "financial_health"),
       Asked("Give me a P&L statement for June 2025", "pnl_statement"),
       Asked("What was June 2025 revenue vs budget in USD?", "revenue_vs_budget"),
       Asked("Show me revenue growth trends", "revenue_growth"),
       Asked("Show me year over year revenue comparison", "yearly_comparison"),
       Asked("Show Gross Margin % trend for the last 3 months", "gm_trend"),
       Asked("Show me EBITDA trends and analysis", "ebitda_trend"),
       Asked("Break down Opex by category for June", "opex_breakdown"),
       Asked("Show me top expense categories", "top_expenses"),
       Asked("What is our cost structure?", "cost_structure"),
       Asked("What is our cash runway right now?", "cash_runway"),
       Asked("Show me monthly burn trends", "burn_rate"),
       Asked("Show quarterly financial trends", "quarterly_trends"),
       Asked("Give me a complete budget variance report", "budget_variance"),
       Asked("Show me month-over-month financial comparison", "monthly_comparison") >>

ListedQuestions == SampleQuestions \o TestQueries \o HelpQuestions

\* Words and phrases the rules look for, and some they do not.
Vocabulary ==
    {"cash runway", "runway", "cash", "revenue", "budget", "gross margin",
     "trend", "last 6 months", "ebitda", "analysis", "mom", "year over year",
     "p&l", "sept 2024", "variance", "vs budget", "cost structure", "quarter",
     "comparison", "burn rate", "kpi", "top expenses", "growth rate", "opex",
     "breakdown", "summary", "hello", " "}

MaxWords == 2

RECURSIVE JoinWords(_)
\* " ".join(words)
JoinWords(words) ==
    IF Len(words) = 0 THEN ""
    ELSE IF Len(words) = 1 THEN words[1]
    ELSE words[1] \o " " \o JoinWords(Tail(words))

Questions ==
    {ListedQuestions[i].q : i \in DOMAIN ListedQuestions}
        \cup {JoinWords(w) : w \in SeqsUpTo(Vocabulary, MaxWords) \ {<<>>}}

InitIntent ==
    /\ actuals = EmptyTable
    /\ budget = EmptyTable
    /\ fx = EmptyTable
    /\ cash = EmptyTable
    /\ labels = <<>>
    /\ loads = <<>>
    /\ call = NoCall
    /\ ret = NoResult

\* main.py:42: intent = classify_intent(user_q) on the question typed.
ClassifyIntent ==
    /\ call = NoCall
    /\ \E q \in Questions :
          /\ call' = [op |-> "classify_intent", q |-> q]
          /\ ret' = classify_intent(q)
    /\ UNCHANGED <<actuals, budget, fx, cash, labels, loads>>

\* main.py:44: handle_intent(intent) on the intent classified.
HandleIntent ==
    /\ call.op = "classify_intent"
    /\ call' = [op |-> "handle_intent", q |-> call.q, intent |-> ret]
    /\ ret' = handle_intent(ret)
    /\ UNCHANGED <<actuals, budget, fx, cash, labels, loads>>

NextIntent == ClassifyIntent \/ HandleIntent

SpecIntent == InitIntent /\ [][NextIntent]_vars

\* ---------------------------------------------------------------------------
\* C21: the sample questions and the tests' queries reach their intents.
\* ---------------------------------------------------------------------------

\* The question of the state has been classified and ret holds its Intent.
IntentClassified == call.op = "classify_intent"

\* The intents the listing gives the question asked.
IntendedBy(listing) == {listing[i].intent : i \in {j \in DOMAIN listing : listing[j].q = call.q}}

\* C21: every sample question offered to the user (components/blocks.py) and
\* every query of the tests' tables is classified to its intended intent and
\* never to "unknown"; so "Show me top expense categories" is top_expenses,
\* "What's our cost structure?" is cost_structure, "Show me financial health
\* metrics" is financial_health and "Give me quarterly financial summary" is
\* quarterly_summary.
C21_SamplesClassified ==
    IntentClassified =>
        /\ \A intended \in IntendedBy(SampleQuestions \o TestQueries) : ret.name = intended
        /\ IntendedBy(SampleQuestions \o TestQueries) # {} => ret.name # "unknown"

\* What holds instead: of the samples and the tests' queries, only "Show me
\* top expense categories" misses its intent; it matches no rule at all.
C21_OnlyTopExpensesMissed ==
    IntentClassified /\ call.q # "Show me top expense categories" =>
        \A intended \in IntendedBy(SampleQuestions \o TestQueries) : ret.name = intended

C21_TopExpensesUnknown ==
    IntentClassified /\ call.q = "Show me top expense categories" => ret.name = "unknown"

\* Of the examples of the help text, the same question and the hyphenated
\* "month-over-month" miss their intents.
C21_HelpExamples ==
    IntentClassified =>
        \A intended \in IntendedBy(HelpQuestions) :
            ret.name # intended <=>
                call.q \in {"Show me top expense categories",
                            "Show me month-over-month financial comparison"}

\* ---------------------------------------------------------------------------
\* C22: classify_intent is a total first-match-wins cascade.
\* ---------------------------------------------------------------------------

\* The order of the rules as the claim lists it.
RuleOrder ==
    <<"cash_runway", "revenue_vs_budget", "gm_trend", "ebitda", "monthly_comparison",
      "yearly_comparison", "pnl_statement", "budget_variance", "cost_structure",
      "quarterly", "burn_rate", "financial_health", "top_expenses", "revenue_growth",
      "opex_breakdown", "dashboard", "revenue">>

\* The rule whose return statement gives the intent name.
RuleOf(name) ==
    CASE name \in {"ebitda", "ebitda_trend"} -> "ebitda"
      [] name \in {"quarterly_trends", "quarterly_summary"} -> "quarterly"
      [] OTHER -> name

\* The names of the rules of a table whose condition holds.
matching_names(rules) == {rules[i].name : i \in {j \in DOMAIN rules : rules[j].when}}

\* The rules whose condition holds of the question asked.
MatchingRules ==
    CHOOSE names \in {matching_names(rules) : rules \in {rule_table(Strip(Lower(call.q)))}} : TRUE

\* The intent is that of the first rule of RuleOrder among those matching.
FirstOf(matching, name) ==
    /\ name = "unknown" <=> matching = {}
    /\ matching # {} =>
          \E i \in DOMAIN RuleOrder :
              /\ RuleOrder[i] = RuleOf(name)
              /\ RuleOrder[i] \in matching
              /\ \A j \in 1..(i - 1) : RuleOrder[j] \notin matching

\* C22: for every question classify_intent returns exactly one intent, that of
\* the first rule that matches in the order cash_runway, revenue_vs_budget,
\* gm_trend, ebitda, monthly_comparison, yearly_comparison, pnl_statement,
\* budget_variance, cost_structure, quarterly, burn_rate, financial_health,
\* top_expenses, revenue_growth, opex_breakdown, dashboard, revenue, and
\* "unknown" if and only if no rule matches.
C22_FirstMatchWins ==
    IntentClassified =>
        /\ DOMAIN ret = {"name", "period"}
        /\ \A matching \in {MatchingRules} : FirstOf(matching, ret.name)

\* "year over year revenue trends" matches the yearly_comparison, the
\* revenue_growth and the revenue rule, and is a yearly_comparison.
C22_Witness ==
    /\ IntentClassified
    /\ Contains(Lower(call.q), "year over year revenue trends")
    /\ {"yearly_comparison", "revenue_growth", "revenue"} \subseteq MatchingRules
    /\ ret.name = "yearly_comparison"

\* ---------------------------------------------------------------------------
\* C30: every classified intent has its own branch in handle_intent.
\* ---------------------------------------------------------------------------

\* handle_intent has run on the intent classified for the question.
IntentHandled == call.op = "handle_intent"

\* The metric function of agent/tools.py that answers an intent.
MetricOf(name) ==
    CASE name = "revenue_vs_budget" \/ name = "revenue" -> "revenue_vs_budget"
      [] name = "gm_trend" -> "gross_margin_trend"
      [] name = "opex_breakdown" -> "opex_breakdown"
      [] name = "cash_runway" -> "cash_runway_months"
      [] name = "ebitda" \/ name = "ebitda_trend" -> "ebitda_proxy"
      [] name = "monthly_comparison" -> "monthly_comparison"
      [] name = "yearly_comparison" -> "yearly_comparison"
      [] name = "budget_variance" -> "budget_variance_analysis"
      [] name = "pnl_statement" -> "pnl_statement"
      [] name = "revenue_growth" -> "revenue_growth_analysis"
      [] name = "top_expenses" \/ name = "cost_structure" -> "top_expenses_analysis"
      [] name = "burn_rate" -> "burn_rate_analysis"
      [] name = "financial_health" \/ name = "quarterly_summary"
            \/ name = "quarterly_trends" -> "quarterly_summary"
      [] OTHER -> "none"

\* The metric functions handle_intent called.
CalledTools == {ret.calls[i].fn : i \in DOMAIN ret.calls}

\* C30: every intent name classify_intent returns, other than "unknown", has
\* a branch of its own in handle_intent that calls the corresponding metric
\* function; none (cost_structure, quarterly_trends, yearly_comparison among
\* them) falls through to the help text shown for unknown questions.
C30_EveryIntentHandled ==
    IntentHandled /\ call.intent.name # "unknown" =>
        /\ ~ret.help
        /\ call.intent.name # "dashboard" => MetricOf(call.intent.name) \in CalledTools

\* What holds instead: exactly cost_structure, quarterly_trends and
\* yearly_comparison are shown the help text, as unknown is.
C30_HelpShown ==
    IntentHandled =>
        (ret.help <=> call.intent.name \in
            {"unknown", "cost_structure", "quarterly_trends", "yearly_comparison"})

\* Every other intent reaches a branch that calls its metric function.
C30_OthersHandled ==
    IntentHandled /\ ~ret.help /\ call.intent.name # "dashboard" =>
        MetricOf(call.intent.name) \in {branch_calls(call.intent)[i].fn :
                                           i \in DOMAIN branch_calls(call.intent)}

---------------------------------------------------------------------------
(* The period specification: tables of up to MaxPeriodRows rows whose time *)
(* is held under different headers, and one call of the period normalizer. *)

MaxPeriodRows == 3

\* The files: their header, and the fields a row of theirs can hold.
\*  - a year and a month column under the alias names, months as numbers
\*    and as names;
\*  - the same under other aliases and in another column order;
\*  - a period column beside a date-named column, either unreadable in places;
\*  - a date-named column, a yyyymm column and a column only brute force reads;
\*  - two columns only brute force reads.
PeriodFiles ==
    {[cols |-> <<"Yr", "Mo", "Amount">>,
      fields |-> ("Yr" :> {Str("2025"), Str("2024")})
                 @@ ("Mo" :> {Str("Mar"), Str("3"), Str("December")})
                 @@ ("Amount" :> {Str("1000")})],
     [cols |-> <<"Mth", "Account", "YEAR">>,
      fields |-> ("Mth" :> {Str("mar"), Str("11")})
                 @@ ("Account" :> {Str("Revenue")})
                 @@ ("YEAR" :> {Str("2025")})],
     [cols |-> <<"Date", "Period", "Amount">>,
      fields |-> ("Date" :> {Str("2025-07-15"), Str("bad")})
                 @@ ("Period" :> {Str("2025-06"), Str("unknown")})
                 @@ ("Amount" :> {Str("1000")})],
     [cols |-> <<"Txn Date", "Month", "Booked">>,
      fields |-> ("Txn Date" :> {Str("2025-07-15"), Str("bad")})
                 @@ ("Month" :> {Str("202506"), Str("unknown")})
                 @@ ("Booked" :> {Str("2025-08-01"), Str("x")})],
     [cols |-> <<"Booked", "Posted", "Note">>,
      fields |-> ("Booked" :> {Str("2025-08-01"), Str("x")})
                 @@ ("Posted" :> {Str("2025-09-01"), Str("x")})
                 @@ ("Note" :> {Str("abc")})]}

\* The tables read of the files with up to MaxPeriodRows rows.
PeriodTables ==
    UNION {{read_fields(file.cols, rows) : rows \in SeqsUpTo(FileRows(file), MaxPeriodRows)} :
            file \in PeriodFiles}

InitPeriods ==
    /\ actuals \in PeriodTables
    /\ fx = EmptyTable
    /\ budget = EmptyTable
    /\ cash = EmptyTable
    /\ labels = <<>>
    /\ loads = <<>>
    /\ call = NoCall
    /\ ret = NoResult

\* _ensure_period_columns(df) on the table read.
ResolvePeriods == Called([op |-> "_ensure_period_columns"], _ensure_period_columns(actuals))

SpecPeriods == InitPeriods /\ [][ResolvePeriods]_vars


\* ---------------------------------------------------------------------------
\* C23: a year and a month column resolve to the first day of that month.
\* ---------------------------------------------------------------------------

\* _ensure_period_columns has run on the table read.
PeriodsResolved == call.op = "_ensure_period_columns"

\* The first column of the table read whose lower-cased name is one of names
\* in their order, or "" when there is none.
AliasColumn(names) ==
    IF \E i \in DOMAIN names : \E c \in ColSet(actuals) : Lower(c) = names[i]
    THEN CHOOSE c \in ColSet(actuals) :
            \E i \in DOMAIN names :
                /\ Lower(c) = names[i]
                /\ \A j \in 1..(i - 1) : \A d \in ColSet(actuals) : Lower(d) # names[j]
                /\ \A d \in ColSet(actuals) :
                      Lower(d) = names[i] => IndexOf(actuals.cols, c) <= IndexOf(actuals.cols, d)
    ELSE ""

YearColumn == AliasColumn(<<"year", "yr">>)
MonthColumn == AliasColumn(<<"month", "mo", "mnth", "mth">>)

\* The table read has a year-like and a month-like column and neither a
\* period column nor a date-named one.
YearAndMonthOnly ==
    /\ YearColumn # "" /\ MonthColumn # ""
    /\ \A c \in ColSet(actuals) :
          Lower(c) # "period" /\ ~NameHasKey(Lower(c), DateNameKeys)

\* The month a cell holds as a number or as a month name, or 0.
MonthHeld(x) ==
    CASE IsNum(x) /\ x.d = 1 /\ x.n \in 1..12 -> x.n
      [] IsStr(x) /\ AllDigits(Strip(x.s)) /\ DigitsVal(Strip(x.s)) \in 1..12 ->
            DigitsVal(Strip(x.s))
      [] IsStr(x) -> MonthOfName(Strip(x.s))
      [] OTHER -> 0

\* The year a cell holds, or 0.
YearHeld(x) ==
    CASE IsNum(x) /\ x.d = 1 -> x.n
      [] IsStr(x) /\ AllDigits(Strip(x.s)) -> DigitsVal(Strip(x.s))
      [] OTHER -> 0

\* C23: for a table without a period or date-named column but with a
\* year-like column (year, yr) and a month-like column (month, mo, mnth,
\* mth), _ensure_period_columns sets the period of each row to the first day
\* of that row's year and month, the month given as a number or as a month
\* name: Yr = 2025 and Mo = "Mar" resolve to 2025-03-01.
C23_YearAndMonthResolved ==
    (/\ PeriodsResolved /\ YearAndMonthOnly
     /\ \A i \in DOMAIN actuals.rows :
           /\ YearHeld(actuals.rows[i][YearColumn]) > 0
           /\ MonthHeld(actuals.rows[i][MonthColumn]) > 0)
        => /\ ~IsError(ret)
           /\ Len(ret.rows) = Len(actuals.rows)
           /\ \A i \in DOMAIN actuals.rows :
                 ret.rows[i]["period"] =
                     Ts(YearHeld(actuals.rows[i][YearColumn]),
                        MonthHeld(actuals.rows[i][MonthColumn]), 1)

\* A row Yr = 2025, Mo = "Mar" beside a row with a month number, resolved to
\* 2025-03-01.
C23_Witness ==
    /\ PeriodsResolved /\ YearAndMonthOnly /\ ~IsError(ret)
    /\ actuals.cols = <<"Yr", "Mo", "Amount">>
    /\ Len(actuals.rows) = 2
    /\ actuals.rows[1]["Yr"] = Num(2025) /\ actuals.rows[1]["Mo"] = Str("Mar")
    /\ actuals.rows[2]["Mo"] = Str("3")
    /\ ret.rows[1]["period"] = Ts(2025, 3, 1)
    /\ ret.rows[2]["period"] = Ts(actuals.rows[2]["Yr"].n, 3, 1)

\* ---------------------------------------------------------------------------
\* C24: precedence of the period column, the 60% threshold, the best column.
\* ---------------------------------------------------------------------------

\* The cells of a column of the table read as pandas.to_datetime reads them.
DatesOf(c) == [i \in DOMAIN actuals.rows |-> ToDatetime(actuals.rows[i][c])]

\* The cells of a column after the rewriting of the yyyymm strategy.
RewrittenDatesOf(c) ==
    [i \in DOMAIN actuals.rows |->
        ToDatetime(HyphenateYyyymm(KeepDateChars(
            CellStr(actuals.rows[i][c], IsIntCol(actuals, c)))))]

\* The number of the dates that are dates.
ParsedCount(dates) == Cardinality({i \in DOMAIN dates : IsTs(dates[i])})

\* At least 60% of the dates are dates.
SixtyPercent(dates) == Len(dates) > 0 /\ 5 * ParsedCount(dates) >= 3 * Len(dates)

\* The period column the call returned is the months of the dates.
PeriodIsMonthOf(dates) ==
    /\ ~IsError(ret)
    /\ \A i \in DOMAIN dates :
          ret.rows[i]["period"] = (IF IsTs(dates[i]) THEN Ts(dates[i].y, dates[i].m, 1) ELSE NaN)

\* The column named period, when one of its values is a date.
ReadablePeriodColumn ==
    {c \in ColSet(actuals) : Lower(c) = "period" /\ ParsedCount(DatesOf(c)) > 0}

\* The candidates in the order the strategies try them: the date-named
\* columns, then the yyyymm-style columns, each in column order.
CandidateColumns ==
    [i \in DOMAIN actuals.cols |->
        [dates |-> DatesOf(actuals.cols[i]),
         named |-> NameHasKey(Lower(actuals.cols[i]), DateNameKeys)]]
    \o [i \in DOMAIN actuals.cols |->
        [dates |-> RewrittenDatesOf(actuals.cols[i]),
         named |-> NameHasKey(Lower(actuals.cols[i]), TimeNameKeys)]]

\* The candidates that are accepted.
AcceptedCandidates ==
    {i \in DOMAIN CandidateColumns :
        CandidateColumns[i].named /\ SixtyPercent(CandidateColumns[i].dates)}

\* The columns brute force accepts.
BruteForceColumns == {c \in ColSet(actuals) : SixtyPercent(DatesOf(c))}

\* The table read has no year and month pair, whose strategy has no threshold.
NoYearAndMonth == YearColumn = "" \/ MonthColumn = ""

\* C24: a column named period of which at least one value parses as a date is
\* used, without a parse-ratio threshold, in preference to every other
\* column; any other candidate column (date-named, yyyymm-style, brute force)
\* is accepted only if at least 60% of its values parse, and otherwise the
\* next candidate or strategy is tried; brute force picks the column with the
\* highest parse ratio.
C24_PrecedenceAndThresholds ==
    PeriodsResolved =>
        /\ \A c \in ReadablePeriodColumn : PeriodIsMonthOf(DatesOf(c))
        /\ (ReadablePeriodColumn = {} /\ NoYearAndMonth /\ AcceptedCandidates # {}) =>
              \E i \in AcceptedCandidates :
                  /\ \A j \in AcceptedCandidates : i <= j
                  /\ PeriodIsMonthOf(CandidateColumns[i].dates)
        /\ (ReadablePeriodColumn = {} /\ NoYearAndMonth /\ AcceptedCandidates = {}) =>
              /\ BruteForceColumns = {} => IsError(ret)
              /\ BruteForceColumns # {} =>
                    \E c \in BruteForceColumns :
                        /\ \A d \in BruteForceColumns :
                              ParsedCount(DatesOf(d)) <= ParsedCount(DatesOf(c))
                        /\ PeriodIsMonthOf(DatesOf(c))

\* A period column with one readable value of three is used although the
\* date-named column beside it reads in every row.
C24_Witness_PeriodColumn ==
    /\ PeriodsResolved /\ ~IsError(ret)
    /\ Len(actuals.rows) = 3
    /\ \E c \in ReadablePeriodColumn :
          /\ ParsedCount(DatesOf(c)) = 1
          /\ \E d \in ColSet(actuals) :
                /\ NameHasKey(Lower(d), DateNameKeys) /\ ParsedCount(DatesOf(d)) = 3
                /\ \E i \in DOMAIN actuals.rows :
                      DatesOf(c)[i] = NaN /\ ret.rows[i]["period"] = NaN

\* A date-named column of which one value of three reads is passed over, and
\* the yyyymm-style column of which two of three read is accepted.
C24_Witness ==
    /\ PeriodsResolved /\ ~IsError(ret)
    /\ Len(actuals.rows) = 3 /\ ReadablePeriodColumn = {} /\ NoYearAndMonth
    /\ \E i \in AcceptedCandidates :
          /\ \A j \in AcceptedCandidates : i <= j
          /\ ParsedCount(CandidateColumns[i].dates) = 2
          /\ PeriodIsMonthOf(CandidateColumns[i].dates)
          /\ \E j \in 1..(i - 1) :
                CandidateColumns[j].named /\ ParsedCount(CandidateColumns[j].dates) = 1

\* Brute force passes over the first column, which reads in two rows of
\* three, for the second, which reads in all.
C24_Witness_BruteForce ==
    /\ PeriodsResolved /\ ~IsError(ret)
    /\ ReadablePeriodColumn = {} /\ NoYearAndMonth /\ AcceptedCandidates = {}
    /\ \E c, d \in BruteForceColumns :
          /\ IndexOf(actuals.cols, c) < IndexOf(actuals.cols, d)
          /\ ParsedCount(DatesOf(c)) = 2 /\ ParsedCount(DatesOf(d)) = 3
          /\ PeriodIsMonthOf(DatesOf(d))
          /\ ~PeriodIsMonthOf(DatesOf(c))

\* ---------------------------------------------------------------------------
\* C25: _standardize_schema only adds columns.
\* ---------------------------------------------------------------------------

\* _standardize_schema has run on the table read.
SchemaStandardized == call.op = "_standardize_schema"

\* The input column of a lower-snake-case name, or "" when there is none.
InputColumn(name) ==
    IF \E c \in ColSet(actuals) : SnakeName(c) = name
    THEN CHOOSE c \in ColSet(actuals) : SnakeName(c) = name
    ELSE ""

\* The first name of an ordered alias list that is an input column, or "".
FirstAlias(aliases) ==
    IF \E i \in DOMAIN aliases : InputColumn(aliases[i]) # ""
    THEN InputColumn(aliases[CHOOSE i \in DOMAIN aliases :
                                 /\ InputColumn(aliases[i]) # ""
                                 /\ \A j \in 1..(i - 1) : InputColumn(aliases[j]) = ""])
    ELSE ""

\* The first numeric input column not named rate or rate_to_usd, or "".
FirstNumericColumn ==
    IF \E i \in DOMAIN actuals.cols :
          actuals.cols[i] \in actuals.num
              /\ SnakeName(actuals.cols[i]) \notin {"rate", "rate_to_usd"}
    THEN actuals.cols[CHOOSE i \in DOMAIN actuals.cols :
              /\ actuals.cols[i] \in actuals.num
              /\ SnakeName(actuals.cols[i]) \notin {"rate", "rate_to_usd"}
              /\ \A j \in 1..(i - 1) :
                    actuals.cols[j] \notin actuals.num
                        \/ SnakeName(actuals.cols[j]) \in {"rate", "rate_to_usd"}]
    ELSE ""

\* The input column a canonical column is made of, or "".
SourceOf(target) ==
    CASE target = "account" -> FirstAlias(AccountAliases)
      [] target = "amount" ->
            IF FirstAlias(AmountAliases) # "" THEN FirstAlias(AmountAliases)
            ELSE FirstNumericColumn
      [] target = "currency" -> FirstAlias(CurrencyAliases)
      [] target = "entity" -> FirstAlias(EntityAliases)

CanonicalColumns == {"account", "amount", "currency", "entity"}

\* Every input column is in the output under its lower-snake-case name with
\* its values, and the output has no column besides these and the canonical.
InputRetained ==
    /\ ~IsError(ret)
    /\ Len(ret.rows) = Len(actuals.rows)
    /\ \A c \in ColSet(actuals) :
          HasCol(ret, SnakeName(c)) /\ Column(ret, SnakeName(c)) = Column(actuals, c)
    /\ ColSet(ret) \subseteq {SnakeName(c) : c \in ColSet(actuals)} \cup CanonicalColumns

\* A canonical column that was no input column exists exactly when it has a
\* source, and holds the source's values as made holds them.
CanonicalMade(target, made(_)) ==
    InputColumn(target) = "" =>
        /\ HasCol(ret, target) <=> SourceOf(target) # ""
        /\ HasCol(ret, target) =>
              \A i \in DOMAIN ret.rows :
                  ret.rows[i][target] = made(actuals.rows[i][SourceOf(target)])

\* C25: _standardize_schema only adds columns.  Every input column is kept
\* under its lower-snake-case name with unchanged values; each canonical
\* column (account, amount, currency, entity) that did not exist is a copy of
\* the first alias present in the ordered alias list of its target; a
\* canonical column that exists is not overwritten; without an amount alias,
\* amount is taken from the first numeric column not named rate or
\* rate_to_usd.
C25_OnlyAddsCopies ==
    SchemaStandardized =>
        /\ InputRetained
        /\ \A target \in CanonicalColumns : CanonicalMade(target, LAMBDA x : x)

\* C25 as the code has it: the same, but the amount column made is the
\* source through pd.to_numeric(errors="coerce"); a number stays, a text that
\* is a number becomes it, any other text becomes null.
C25_AmountCoerced ==
    SchemaStandardized =>
        /\ InputRetained
        /\ \A target \in CanonicalColumns \ {"amount"} : CanonicalMade(target, LAMBDA x : x)
        /\ CanonicalMade("amount", ToNumeric)

\* Two account aliases and two amount aliases in the input: account is the
\* gl_account column and amount the value column with its text coerced.
C25_Witness ==
    /\ SchemaStandardized /\ ~IsError(ret)
    /\ {"GL Account", "Category", "Value", "Total"} \subseteq ColSet(actuals)
    /\ SourceOf("account") = "GL Account" /\ SourceOf("amount") = "Value"
    /\ Len(ret.rows) = 2
    /\ actuals.rows[1]["Value"] = Str("abc") /\ ret.rows[1]["amount"] = NaN
    /\ actuals.rows[2]["Value"] = Str("1000") /\ ret.rows[2]["amount"] = Num(1000)
    /\ ret.rows[1]["account"] = actuals.rows[1]["GL Account"]
    /\ ret.rows[1]["account"] # actuals.rows[1]["Category"]
    /\ ret.rows[1]["currency"] = actuals.rows[1]["Ccy"]
    /\ ret.rows[1]["entity"] = actuals.rows[1]["Company"]


---------------------------------------------------------------------------
(* The burn specification: ledgers of up to MaxBurnMonths months, more     *)
(* than burn_rate_analysis returns, a cash table with or without a row for *)
(* every month, and one call of burn_rate_analysis.                        *)

MaxBurnMonths == 13

\* The text of month i, counted from January 2024.
BurnMonthText(i) == NatStr(2024 + ((i - 1) \div 12)) \o "-" \o Pad2(((i - 1) % 12) + 1)

\* What the months of a ledger hold, in turn: positions of AnalysisMonths.
BurnProfiles == {<<3, 3, 3>>, <<3, 2, 4>>, <<2, 3, 1>>, <<2, 2, 3>>}

RECURSIVE BurnLedgerRows(_, _)
BurnLedgerRows(profile, n) ==
    IF n = 0 THEN <<>>
    ELSE BurnLedgerRows(profile, n - 1)
            \o [j \in DOMAIN AnalysisMonths[profile[((n - 1) % 3) + 1]] |->
                   [month |-> Str(BurnMonthText(n)),
                    account |-> AnalysisMonths[profile[((n - 1) % 3) + 1]][j].account,
                    amount |-> AnalysisMonths[profile[((n - 1) % 3) + 1]][j].amount,
                    currency |-> AnalysisMonths[profile[((n - 1) % 3) + 1]][j].currency]]

BurnLedgers ==
    {read_csv(<<"month", "account", "amount", "currency">>, BurnLedgerRows(profile, n)) :
        profile \in BurnProfiles, n \in 1..MaxBurnMonths}

\* The cash rows of month i: none, one balance, or one balance per entity.
CashRowsOf(i, entities) ==
    [j \in 1..entities |->
        [month |-> Str(BurnMonthText(i)), cash_usd |-> Num(60000 - 10000 * j)]]

RECURSIVE CashLedgerRows(_, _)
\* every[k]: how many cash rows the months at position k of three hold.
CashLedgerRows(every, n) ==
    IF n = 0 THEN <<>>
    ELSE CashLedgerRows(every, n - 1) \o CashRowsOf(n, every[((n - 1) % 3) + 1])

CashLedgers ==
    {read_csv(<<"month", "cash_usd">>, CashLedgerRows(every, n)) :
        every \in {<<1, 1, 1>>, <<1, 0, 2>>, <<0, 2, 0>>}, n \in {1, MaxBurnMonths}}

InitBurn ==
    /\ \E file \in BurnLedgers : actuals = load_one(file)
    /\ \E file \in CashLedgers : cash = load_one(file)
    /\ budget = BudgetPlanLoaded
    /\ fx = RatesLoaded
    /\ labels = <<>>
    /\ loads = <<>>
    /\ call = NoCall
    /\ ret = NoResult

SpecBurn == InitBurn /\ [][BurnRateAnalysis]_vars

\* ---------------------------------------------------------------------------
\* C26: the rows, the rolling average and the runway of burn_rate_analysis.
\* ---------------------------------------------------------------------------

\* The burn rate of one period of actuals: expenses less revenue, floored at 0.
BurnIn(p) == IF FGt(FNeg(EbitdaIn(p)), Zero) THEN FNeg(EbitdaIn(p)) ELSE Zero

\* The mean of the burn rate over the period at position i of the periods
\* of actuals and up to two periods before it.
ThreeMonthBurn(i) ==
    FDiv(SumOver({Periods(actuals)[j] : j \in (IF i > 3 THEN i - 2 ELSE 1)..i},
                 [p \in Range(Periods(actuals)) |-> BurnIn(p)]),
         Num(IF i > 3 THEN 3 ELSE i))

\* The total USD cash of a period: the sum over the cash rows of the period.
CashIn(p) ==
    SumOver({i \in DOMAIN cash.rows : cash.rows[i]["period"] = p},
            [i \in DOMAIN cash.rows |-> UsdOf(cash.rows[i])])

\* The runway of the claim: infinite without burn, else cash over burn.
RunwayClaimed(cash_usd, burn) == IF FLe(burn, Zero) THEN PosInf ELSE FDiv(cash_usd, burn)

\* The position among the periods of actuals of row i of the result, the
\* result holding the last of them.
PositionOf(i) == Len(Periods(actuals)) - Len(ret.rows) + i

\* The rows returned are the last BurnRows periods of actuals, ascending.
LatestPeriodsReturned ==
    /\ Len(ret.rows) <= BurnRows
    /\ Len(ret.rows) = (IF Len(Periods(actuals)) < BurnRows
                        THEN Len(Periods(actuals)) ELSE BurnRows)
    /\ \A i \in DOMAIN ret.rows : ret.rows[i]["period"] = Periods(actuals)[PositionOf(i)]

\* C26: burn_rate_analysis returns at most 12 rows, the chronologically
\* latest periods in ascending order; in each row burn_rate_3m_avg is the
\* mean of burn_rate over that period and up to two preceding periods, and
\* months_runway is infinity when burn_rate_3m_avg <= 0 and otherwise that
\* period's total USD cash divided by burn_rate_3m_avg, never negative
\* infinity.
C26_RollingBurnAndRunway ==
    BurnReturned =>
        /\ LatestPeriodsReturned
        /\ \A i \in DOMAIN ret.rows :
              /\ ret.rows[i]["burn_rate_3m_avg"] = ThreeMonthBurn(PositionOf(i))
              /\ ret.rows[i]["months_runway"]
                    = RunwayClaimed(CashIn(ret.rows[i]["period"]), ret.rows[i]["burn_rate_3m_avg"])
              /\ ret.rows[i]["months_runway"] # NegInf

\* What holds instead: the rows and the rolling average are as claimed, and
\* so is the runway of every period that has a cash row or no burn; a period
\* that burns cash and has no row in the cash table has a null runway.
C26_RunwayNullWithoutCashRow ==
    BurnReturned =>
        /\ LatestPeriodsReturned
        /\ \A i \in DOMAIN ret.rows :
              /\ ret.rows[i]["burn_rate_3m_avg"] = ThreeMonthBurn(PositionOf(i))
              /\ ret.rows[i]["months_runway"] # NegInf
              /\ ret.rows[i]["months_runway"] =
                    (IF FGt(ret.rows[i]["burn_rate_3m_avg"], Zero)
                          /\ ret.rows[i]["period"] \notin PeriodsOf(cash)
                     THEN NaN
                     ELSE RunwayClaimed(CashIn(ret.rows[i]["period"]),
                                        ret.rows[i]["burn_rate_3m_avg"]))

\* ---------------------------------------------------------------------------
\* C27: the conversion returns one row per record.
\* ---------------------------------------------------------------------------

\* Row i of the result is record i: its account, amount and currency.
IsRecord(i) ==
    /\ ret.rows[i]["account"] = actuals.rows[i]["account"]
    /\ ret.rows[i]["amount"] = actuals.rows[i]["amount"]
    /\ ret.rows[i]["currency"] = actuals.rows[i]["currency"]

\* C27: for any record set and any FX table, one with several entries for
\* the same (period, currency) pair included, _fx_to_usd returns exactly one
\* output row per input row, in the same order, so that no amount is dropped
\* or counted more than once in a sum of amount_usd.
C27_OneRowPerRecord ==
    Converted =>
        /\ Len(ret.rows) = Len(actuals.rows)
        /\ \A i \in DOMAIN ret.rows : IsRecord(i)

RECURSIVE RowsJoined(_)
\* The number of rows the first n records give: one per FX entry of the
\* record's key, and one for a record without an entry.
RowsJoined(n) ==
    IF n = 0 THEN 0
    ELSE RowsJoined(n - 1)
            + (IF EntriesFor(actuals.rows[n]) = {} THEN 1
               ELSE Cardinality(EntriesFor(actuals.rows[n])))

\* What holds instead: a record whose key has several entries in the FX
\* table is returned once per entry; the others are returned once, and the
\* order of the records is kept.
C27_OneRowPerEntry == Converted => Len(ret.rows) = RowsJoined(Len(actuals.rows))

\* With an FX table that has no key twice the rows are preserved.
C27_PreservedWhenRatesUnique ==
    (Converted /\ RatesUnique) =>
        /\ Len(ret.rows) = Len(actuals.rows)
        /\ \A i \in DOMAIN ret.rows : IsRecord(i)

---------------------------------------------------------------------------
(* C28: the EBITDA of a period as each of the five tools reports it.        *)

\* The rows of a result whose column key holds label; none in an exception.
RowsWith(result, key, label) ==
    IF IsError(result) THEN {}
    ELSE {i \in DOMAIN result.rows : result.rows[i][key] = label}

\* The result has a row for the label.
HasFigure(result, key, label) == RowsWith(result, key, label) # {}

\* The figure of that row.
FigureOf(result, key, label, col) ==
    result.rows[CHOOSE i \in RowsWith(result, key, label) : TRUE][col]

\* The EBITDA of the period p in pnl_statement, budget_variance_analysis,
\* monthly_comparison and burn_rate_analysis on the tables d, as
\* <<reported, figure>>; the month is asked for as pnl_statement labels it.
PnlEbitda(d, p) ==
    \A result \in {pnl_statement(d, MonthLabel(p))} :
        HasFigure(result, "line_item", Str("EBITDA"))

PnlEbitdaIs(d, p, e) ==
    \A result \in {pnl_statement(d, MonthLabel(p))} :
        HasFigure(result, "line_item", Str("EBITDA"))
            => FigureOf(result, "line_item", Str("EBITDA"), "amount") = e

\* The EBITDA line is revenue minus COGS minus the sum of the opex lines of
\* the statement (which shows costs negated).
PnlEbitdaFromLines(d, p) ==
    \A result \in {pnl_statement(d, MonthLabel(p))} :
        HasFigure(result, "line_item", Str("EBITDA")) =>
            FigureOf(result, "line_item", Str("EBITDA"), "amount")
                = FAdd(FAdd(FigureOf(result, "line_item", Str("Revenue"), "amount"),
                            FigureOf(result, "line_item", Str("Cost of Goods Sold (COGS)"),
                                     "amount")),
                       Sum([i \in DOMAIN result.rows |->
                               IF result.rows[i]["type"] = Str("opex")
                               THEN result.rows[i]["amount"] ELSE Zero]))

VarianceEbitda(d, p) ==
    \A result \in {budget_variance_analysis(d, MonthLabel(p))} :
        HasFigure(result, "category", Str("EBITDA"))

VarianceEbitdaIs(d, p, e) ==
    \A result \in {budget_variance_analysis(d, MonthLabel(p))} :
        HasFigure(result, "category", Str("EBITDA"))
            => FigureOf(result, "category", Str("EBITDA"), "actual") = e

ComparisonEbitda(d, p) ==
    \A result \in {monthly_comparison(d)} : HasFigure(result, "period", p)

ComparisonEbitdaIs(d, p, e) ==
    \A result \in {monthly_comparison(d)} :
        HasFigure(result, "period", p) => FigureOf(result, "period", p, "ebitda") = e

BurnEbitda(d, p) ==
    \A result \in {burn_rate_analysis(d)} : HasFigure(result, "period", p)

BurnEbitdaIs(d, p, e) ==
    \A result \in {burn_rate_analysis(d)} :
        HasFigure(result, "period", p)
            => FNeg(FigureOf(result, "period", p, "net_burn")) = e

\* The rows of ebitda_proxy's result that are about a month.
EbitdaRows == {i \in DOMAIN ret.rows : IsTs(ret.rows[i]["period"])}

\* C28: for every period p present in actuals, ebitda_proxy_usd for p equals
\* the EBITDA line of pnl_statement(p), the actual EBITDA of
\* budget_variance_analysis(p), the ebitda of monthly_comparison for p
\* (where it compares p) and the negation of net_burn for p in
\* burn_rate_analysis.
C28_EbitdaAgrees ==
    Returned("ebitda_proxy") =>
        \A d \in {Data} : \A i \in EbitdaRows :
            /\ PnlEbitda(d, ret.rows[i]["period"])
            /\ PnlEbitdaIs(d, ret.rows[i]["period"], ret.rows[i]["ebitda_proxy_usd"])
            /\ PnlEbitdaFromLines(d, ret.rows[i]["period"])
            /\ VarianceEbitda(d, ret.rows[i]["period"])
            /\ VarianceEbitdaIs(d, ret.rows[i]["period"], ret.rows[i]["ebitda_proxy_usd"])
            /\ ComparisonEbitdaIs(d, ret.rows[i]["period"], ret.rows[i]["ebitda_proxy_usd"])
            /\ BurnEbitdaIs(d, ret.rows[i]["period"], ret.rows[i]["ebitda_proxy_usd"])

\* C28, where a tool reports an EBITDA for p: it is ebitda_proxy_usd for p,
\* and the EBITDA line of the statement is what its lines add up to.
C28_AgreeWhereReported ==
    Returned("ebitda_proxy") =>
        \A d \in {Data} : \A i \in EbitdaRows :
            /\ PnlEbitdaIs(d, ret.rows[i]["period"], ret.rows[i]["ebitda_proxy_usd"])
            /\ PnlEbitdaFromLines(d, ret.rows[i]["period"])
            /\ VarianceEbitdaIs(d, ret.rows[i]["period"], ret.rows[i]["ebitda_proxy_usd"])
            /\ ComparisonEbitdaIs(d, ret.rows[i]["period"], ret.rows[i]["ebitda_proxy_usd"])
            /\ BurnEbitdaIs(d, ret.rows[i]["period"], ret.rows[i]["ebitda_proxy_usd"])

\* C28: burn_rate_analysis reports every period, monthly_comparison the
\* last two of two or more, budget_variance_analysis reports or raises, and
\* pnl_statement reports every month that has rows of all three categories.
C28_OnlyStatementFails ==
    Returned("ebitda_proxy") =>
        \A d \in {Data} : \A i \in EbitdaRows :
            /\ VarianceEbitda(d, ret.rows[i]["period"])
                    \/ IsError(budget_variance_analysis(d, MonthLabel(ret.rows[i]["period"])))
            /\ (/\ Len(Periods(actuals)) >= 2
                /\ \E k \in DOMAIN LastOf(Periods(actuals), 2) :
                        LastOf(Periods(actuals), 2)[k] = ret.rows[i]["period"])
                    => ComparisonEbitda(d, ret.rows[i]["period"])
            /\ (/\ RowsIn(actuals, is_revenue, ret.rows[i]["period"]) # {}
                /\ RowsIn(actuals, is_cogs, ret.rows[i]["period"]) # {}
                /\ RowsIn(actuals, is_opex, ret.rows[i]["period"]) # {})
                    => PnlEbitda(d, ret.rows[i]["period"])
            /\ BurnEbitda(d, ret.rows[i]["period"])

---------------------------------------------------------------------------
(* C29: the cash balance of cash_runway_months.                             *)

\* The rows of the latest period of the cash table.
LatestCashRows == {i \in DOMAIN cash.rows : cash.rows[i]["period"] = Latest(cash)}

\* The cash burn_rate_analysis has for the period p, where it has a row for p.
BurnCashIs(d, p, cash_usd) ==
    \A result \in {burn_rate_analysis(d)} :
        HasFigure(result, "period", p) => FigureOf(result, "period", p, "amount_usd") = cash_usd

\* C29: the cash_usd cash_runway_months returns is the total USD cash of the
\* latest period of the cash table, the sum of amount_usd over all cash rows
\* of that period, and so the cash burn_rate_analysis uses for that period,
\* also when the period has several rows.
C29_LatestCashIsPeriodTotal ==
    Returned("cash_runway_months") =>
        /\ ret.cash_usd = LatestCash
        /\ \A d \in {Data} : BurnCashIs(d, Latest(cash), ret.cash_usd)

\* C29, for a latest period of one cash row: cash_usd is the period's total
\* and the cash of burn_rate_analysis for the period.
C29_TotalOfSingleRow ==
    (Returned("cash_runway_months") /\ Cardinality(LatestCashRows) = 1) =>
        /\ ret.cash_usd = LatestCash
        /\ \A d \in {Data} : BurnCashIs(d, Latest(cash), ret.cash_usd)

\* C29: cash_usd is the USD amount of the last row of the latest period, and
\* burn_rate_analysis has the period's total.
C29_LastRowOnly ==
    Returned("cash_runway_months") =>
        /\ \A last \in {CHOOSE i \in LatestCashRows : \A j \in LatestCashRows : j <= i} :
                ret.cash_usd = UsdOf(cash.rows[last])
        /\ \A d \in {Data} : BurnCashIs(d, Latest(cash), LatestCash)

====
